---- MODULE Spec2Model ----
(***************************************************************************)
(* Model of the dependency-resolving task executor of the Cyber            *)
(* Investigation MCP (src/executor_agent.py) together with the OpenSearch   *)
(* tools it dispatches to (src/tools/main_opensearch.py).                   *)
(*                                                                         *)
(* JSON values are tagged records so that Python's isinstance / truthiness  *)
(* tests can be evaluated:                                                  *)
(*   None          [t |-> "none"]                                           *)
(*   str           [t |-> "str",  v |-> "..."]                              *)
(*   dict          [t |-> "dict", v |-> function from keys to values]       *)
(*   list          [t |-> "list", v |-> sequence of values]                 *)
(*   int           [t |-> "int",  v |-> n]                                  *)
(***************************************************************************)
EXTENDS Integers, Sequences, FiniteSets, TLC

\* ------------------------------------------------------------------------
\* Bounds of the model
\* ------------------------------------------------------------------------
\* tasks of a plan
MaxTasks == 3
\* entries of one task's dependent_on_tasks
MaxDeps == 2
\* dependencies declared by all the tasks of a plan together
MaxEdges == 2
\* instants utcnow() can return
MaxClock == 1
\* documents one backend search returns
MaxHits == 1
\* tasks of a plan in the runs checked for termination
MaxLoopTasks == 2

\* ------------------------------------------------------------------------
\* JSON values
\* ------------------------------------------------------------------------
None == [t |-> "none"]
EmptyFn == [k \in {} |-> None]
S(s) == [t |-> "str", v |-> s]
D(f) == [t |-> "dict", v |-> f]
L(s) == [t |-> "list", v |-> s]
I(n) == [t |-> "int", v |-> n]
B(b) == [t |-> "bool", v |-> b]
\* the string produced by datetime.isoformat() for the instant n
Iso(n) == [t |-> "str", iso |-> n]
\* a value json.dumps rejects with TypeError (no tool of the registry returns one)
Opaque == [t |-> "object"]
\* marker: the evaluation raised an exception
Exc == [t |-> "exc"]

IsDict(x) == x.t = "dict"
IsList(x) == x.t = "list"
Has(x, k) == k \in DOMAIN x.v
Get(x, k) == x.v[k]
\* Python truthiness of a value (`if not x`)
Truthy(x) ==
  CASE x.t = "none" -> FALSE
    [] x.t = "dict" -> DOMAIN x.v # {}
    [] x.t = "list" -> Len(x.v) > 0
    [] x.t = "str" -> (IF "v" \in DOMAIN x THEN x.v # "" ELSE TRUE)
    [] x.t = "int" -> x.v # 0
    [] x.t = "bool" -> x.v
    [] OTHER -> TRUE
\* dict.setdefault(k, d) seen as the dict it leaves behind
SetDefault(x, k, d) == IF Has(x, k) THEN x ELSE D(x.v @@ (k :> d))
\* d[k] = val
SetItem(x, k, val) == D((k :> val) @@ x.v)

\* ------------------------------------------------------------------------
\* The backend (OpenSearch) as the tools see it
\* ------------------------------------------------------------------------
\* _source documents a search can return
NamedHit == D("agent" :> D("name" :> S("web01")))
PlainHit == D("rule" :> D("level" :> I(7)))
HitSources == {NamedHit, PlainHit}

SeqsUpTo(A, n) == UNION {[1..m -> A] : m \in 0..n}

\* what opensearch_client.search does on one call: raise, or answer with hits
BackendResponses ==
  {[raised |-> TRUE]} \cup {[raised |-> FALSE, hits |-> h] : h \in SeqsUpTo(HitSources, MaxHits)}

\* datetime.utcnow(), in days
Times == 1..MaxClock

ClientError == D("error" :> S("OpenSearch client not initialized"))

\* build_query(query_string, time_range): time_range is "2d", "1h" or "anytime"
build_query(query_string, time_range, now) ==
  LET end_time == now
      start_time == IF time_range = "2d" THEN end_time - 2 ELSE end_time
      time_filter == D("range" :> D("@timestamp" :>
                         D(("gte" :> Iso(start_time)) @@ ("lte" :> Iso(end_time)))))
      qs == D("query_string" :> D("query" :> S(query_string)))
      filter == IF time_range # "anytime" THEN <<time_filter, qs>> ELSE <<qs>>
  IN  D("query" :> D("bool" :> D("filter" :> L(filter))))

\* the three search tools share one body up to index and default arguments
search_tool(client, resp) ==
  IF ~client THEN ClientError
  ELSE IF resp.raised THEN L(<<>>)
  ELSE L(resp.hits)

search_raw_logs(query, time_range, client, resp) == search_tool(client, resp)
search_alerts(query, time_range, client, resp) == search_tool(client, resp)
search_vulnerabilities(query, time_range, client, resp) == search_tool(client, resp)

get_agent_data(agent_id, agent_name, client, resp) ==
  IF ~client THEN ClientError
  ELSE IF ~Truthy(agent_id) /\ ~Truthy(agent_name)
       THEN D("error" :> S("agent_id or agent_name required"))
  ELSE IF resp.raised THEN L(<<>>)
  ELSE L(resp.hits)

\* ------------------------------------------------------------------------
\* executor_agent: helpers
\* ------------------------------------------------------------------------
TOOL_MAPPING ==
  {"build_query", "search_raw_logs", "search_alerts", "get_agent_data",
   "search_vulnerabilities"}

SearchTools == {"search_raw_logs", "search_alerts", "search_vulnerabilities"}

safe_json(obj) == IF obj.t = "object" THEN S("<object>") ELSE obj

\* the predicates refine_query_for_tool appends for a tool
ToolPredicates(tool_name) ==
  CASE tool_name = "search_alerts" ->
         <<D("match_phrase" :> D("rule.description" :> S("ssh"))),
           D("range" :> D("rule.level" :> D("gte" :> I(5))))>>
    [] tool_name = "search_raw_logs" ->
         <<D("match_phrase" :> D("event.action" :> S("failure"))),
           D("match_phrase" :> D("process.name" :> S("sshd")))>>
    [] tool_name = "search_vulnerabilities" ->
         <<D("wildcard" :> D("vulnerability.id" :> S("CVE-*")))>>
    [] OTHER -> <<>>

\* the elements of add that seq lacks, in order
RECURSIVE Missing(_, _)
Missing(seq, add) ==
  IF add = <<>> THEN <<>>
  ELSE IF \E n \in 1..Len(seq) : seq[n] = Head(add) THEN Missing(seq, Tail(add))
  ELSE <<Head(add)>> \o Missing(seq, Tail(add))

\* a refinement that appends only the predicates the 'must' list lacks
refine_query_dedup(base_query, tool_name) ==
  IF ~IsDict(base_query) THEN base_query
  ELSE LET r1 == SetDefault(base_query, "bool", D(EmptyFn))
           b == Get(r1, "bool")
       IN  IF ~IsDict(b) THEN Exc
           ELSE LET b1 == SetDefault(b, "must", L(<<>>))
                    must == Get(b1, "must")
                IN  IF ~IsList(must) THEN Exc
                    ELSE SetItem(r1, "bool",
                           SetItem(b1, "must",
                                   L(must.v \o Missing(must.v, ToolPredicates(tool_name)))))

refine_query_for_tool(base_query, tool_name) ==
  IF ~IsDict(base_query) THEN base_query
  ELSE LET r1 == SetDefault(base_query, "bool", D(EmptyFn))
           b == Get(r1, "bool")
       IN  IF ~IsDict(b) THEN Exc
           ELSE LET b1 == SetDefault(b, "must", L(<<>>))
                    must == Get(b1, "must")
                IN  IF ~IsList(must) THEN Exc
                    ELSE SetItem(r1, "bool",
                           SetItem(b1, "must", L(must.v \o ToolPredicates(tool_name))))

\* no unwrapping: the value is used as it comes
UnwrapNever(x) == x

\* {'query': {...}} -> {...}, anything else unchanged
UnwrapQuery(x) ==
  IF IsDict(x) /\ Has(x, "query") /\ IsDict(Get(x, "query")) THEN Get(x, "query") ELSE x

\* ------------------------------------------------------------------------
\* executor_agent.execute_task
\* ------------------------------------------------------------------------
CacheGet(cache, id) == IF id \in DOMAIN cache THEN cache[id] ELSE None

Success(task, result) == [task_id |-> task.task_id, result |-> result]
Failure(task, error) == [task_id |-> task.task_id, error |-> error]

\* the message of execute_tool's ValueError used in its place
UnknownToolMsg(tool_name) == <<"Unknown tool: ", tool_name>>
\* f"Tool '{tool_name}' not found or undefined." as its pieces
NotFoundMsg(tool_name) == <<"Tool '", tool_name, "' ", "not found", " or undefined.">>
\* str(e) of an exception raised inside the try block
RaisedMsg == <<"tool raised">>
RefineMsg == <<"AttributeError">>

\* what one call of execute_task observed and did (history only)
NoRec(task) ==
  [task_id |-> task.task_id, tool_name |-> task.tool_name, invoked |-> FALSE,
   built |-> FALSE, prev_result |-> None, base_query |-> None, query |-> None,
   agent_name |-> None, raised |-> FALSE, backend |-> "not_contacted"]

\* SearchBase that never consults the dependency: always a fresh build_query
SearchBaseAlwaysFresh(task, results_cache, now) ==
  LET deps == task.dependent_on_tasks
      has_prev == Len(deps) > 0 /\ deps[1] # ""
      prev_result == IF has_prev THEN CacheGet(results_cache, deps[1]) ELSE None
      built == build_query(task.sub_task, "2d", now)
  IN  [prev_result |-> prev_result, built |-> TRUE, base_query |-> UnwrapQuery(built)]

\* lines 106-139: the base query of a search task and the query handed to the tool
SearchBase(task, results_cache, now) ==
  LET deps == task.dependent_on_tasks
      has_prev == Len(deps) > 0 /\ deps[1] # ""
      prev_result == IF has_prev THEN CacheGet(results_cache, deps[1]) ELSE None
      from_dep == IF has_prev THEN UnwrapQuery(prev_result) ELSE None
      fresh == ~Truthy(from_dep)
      built == build_query(task.sub_task, "2d", now)
  IN  [prev_result |-> prev_result, built |-> fresh,
       base_query |-> IF fresh THEN UnwrapQuery(built) ELSE from_dep]

\* which object of the Result Cache the base query is (lines 113-121): the
\* dependency's entry itself, the 'query' object nested in it, or none of them
\* (no dependency entry used: the query is the one built at line 126)
SharedWithCache(task, results_cache, now) ==
  LET sb == SearchBase(task, results_cache, now)
  IN  IF sb.built \/ sb.prev_result = None THEN "none"
      ELSE IF IsDict(sb.prev_result) /\ Has(sb.prev_result, "query")
              /\ IsDict(Get(sb.prev_result, "query"))
      THEN "nested" ELSE "entry"

\* a refinement working on its argument itself: setdefault and += change it
refine_argument_in_place(base_query, tool_name) ==
  IF ~IsDict(base_query) THEN base_query
  ELSE LET r1 == SetDefault(base_query, "bool", D(EmptyFn))
           b == Get(r1, "bool")
       IN  IF ~IsDict(b) THEN r1
           ELSE LET b1 == SetDefault(b, "must", L(<<>>))
                    must == Get(b1, "must")
                IN  IF ~IsList(must) THEN SetItem(r1, "bool", b1)
                    ELSE SetItem(r1, "bool",
                           SetItem(b1, "must", L(must.v \o ToolPredicates(tool_name))))

\* what the object passed as base_query holds once refine_query_for_tool has
\* returned or raised: line 59 deep-copies it before anything is changed
refine_argument_after(base_query, tool_name) == base_query

\* the Result Cache once line 134 has run: the object the base query shares with
\* it holds what the call left in its argument
CacheAfterRefine(task, results_cache, now) ==
  LET sb == SearchBase(task, results_cache, now)
      shared == SharedWithCache(task, results_cache, now)
      dep == task.dependent_on_tasks[1]
      after == refine_argument_after(sb.base_query, task.tool_name)
  IN  CASE shared = "entry" -> (dep :> after) @@ results_cache
        [] shared = "nested" ->
             (dep :> SetItem(results_cache[dep], "query", after)) @@ results_cache
        [] OTHER -> results_cache

SearchQuery(base_query, tool_name) ==
  LET refined == refine_query_for_tool(base_query, tool_name)
  IN  IF IsDict(refined) /\ Has(refined, "query") /\ Cardinality(DOMAIN refined.v) = 1
      THEN Get(refined, "query") ELSE refined

\* the extraction of lines 157-159 without the try around it: the AttributeError
\* of .get on a value that is no dict is what comes out
AgentNameUnguarded(task, results_cache) ==
  LET deps == task.dependent_on_tasks
  IN  IF Len(deps) = 0 THEN None
      ELSE LET first == CacheGet(results_cache, deps[1])
           IN  IF ~(IsList(first) /\ Len(first.v) > 0) THEN None
               ELSE LET head == first.v[1]
                    IN  IF ~IsDict(head) THEN Exc
                        ELSE IF ~Has(head, "agent") THEN None
                        ELSE IF ~IsDict(Get(head, "agent")) THEN Exc
                        ELSE IF ~Has(Get(head, "agent"), "name") THEN None
                        ELSE Get(Get(head, "agent"), "name")

\* lines 151-161: the agent name extracted from the first dependency
AgentName(task, results_cache) ==
  LET deps == task.dependent_on_tasks
      prev_results == [k \in 1..Len(deps) |-> CacheGet(results_cache, deps[k])]
  IN  IF Len(prev_results) = 0 THEN None
      ELSE LET first == prev_results[1]
           IN  IF ~(IsList(first) /\ Len(first.v) > 0) THEN None
               ELSE LET head == first.v[1]
                    IN  IF ~IsDict(head) THEN None
                        ELSE IF ~Has(head, "agent") THEN None
                        ELSE IF ~IsDict(Get(head, "agent")) THEN None
                        ELSE IF ~Has(Get(head, "agent"), "name") THEN None
                        ELSE Get(Get(head, "agent"), "name")

\* the tool of the registry applied to its arguments
CallTool(tool_name, query, agent_name, client, resp) ==
  CASE tool_name = "search_raw_logs" -> search_raw_logs(query, "2d", client, resp)
    [] tool_name = "search_alerts" -> search_alerts(query, "2d", client, resp)
    [] tool_name = "search_vulnerabilities" -> search_vulnerabilities(query, "2d", client, resp)
    [] tool_name = "get_agent_data" -> get_agent_data(None, agent_name, client, resp)

\* how the backend fared during the call: the client is missing ("unavailable"),
\* opensearch_client.search raised ("error"), it answered ("ok"), or the tool
\* returned before reaching it ("not_contacted")
BackendStatus(tool_name, agent_name, client, resp) ==
  IF tool_name \notin SearchTools \cup {"get_agent_data"} THEN "not_contacted"
  ELSE IF ~client THEN "unavailable"
  ELSE IF tool_name = "get_agent_data" /\ ~Truthy(agent_name) THEN "not_contacted"
  ELSE IF resp.raised THEN "error"
  ELSE "ok"

\* Finish without the except clause: the exception leaves execute_task
FinishNoCatch(task, results_cache, rec, raw, raises) ==
  IF raises
  THEN [outcome |-> Failure(task, RaisedMsg), cache |-> results_cache,
        rec |-> [rec EXCEPT !.invoked = TRUE, !.raised = TRUE,
                            !.backend = "not_contacted"],
        escaped |-> TRUE]
  ELSE LET result == safe_json(raw)
       IN  [outcome |-> Success(task, result),
            cache |-> (task.task_id :> result) @@ results_cache,
            rec |-> [rec EXCEPT !.invoked = TRUE], escaped |-> FALSE]

\* a call that keeps the cache entry a task already has
FinishKeepsFirst(task, results_cache, rec, raw, raises) ==
  IF raises
  THEN [outcome |-> Failure(task, RaisedMsg), cache |-> results_cache,
        rec |-> [rec EXCEPT !.invoked = TRUE, !.raised = TRUE,
                            !.backend = "not_contacted"],
        escaped |-> FALSE]
  ELSE LET result == safe_json(raw)
       IN  [outcome |-> Success(task, result),
            cache |-> results_cache @@ (task.task_id :> result),
            rec |-> [rec EXCEPT !.invoked = TRUE], escaped |-> FALSE]

\* a call that writes its cache entry before the tool has answered
FinishStoresBeforeFailing(task, results_cache, rec, raw, raises) ==
  IF raises
  THEN [outcome |-> Failure(task, RaisedMsg),
        cache |-> (task.task_id :> None) @@ results_cache,
        rec |-> [rec EXCEPT !.invoked = TRUE, !.raised = TRUE,
                            !.backend = "not_contacted"],
        escaped |-> FALSE]
  ELSE LET result == safe_json(raw)
       IN  [outcome |-> Success(task, result),
            cache |-> (task.task_id :> result) @@ results_cache,
            rec |-> [rec EXCEPT !.invoked = TRUE], escaped |-> FALSE]

\* the try block once the arguments are known: store and return, or convert
\* the exception into a failure outcome
Finish(task, results_cache, rec, raw, raises) ==
  IF raises
  THEN [outcome |-> Failure(task, RaisedMsg), cache |-> results_cache,
        rec |-> [rec EXCEPT !.invoked = TRUE, !.raised = TRUE,
                            !.backend = "not_contacted"],
        escaped |-> FALSE]
  ELSE LET result == safe_json(raw)
       IN  [outcome |-> Success(task, result),
            cache |-> (task.task_id :> result) @@ results_cache,
            rec |-> [rec EXCEPT !.invoked = TRUE], escaped |-> FALSE]

\* env: now (utcnow), resp (backend answer), raises (the tool call raises)
execute_task(task, results_cache, client, env) ==
  LET tool_name == task.tool_name
      rec0 == NoRec(task)
  IN  IF tool_name \notin TOOL_MAPPING
      THEN [outcome |-> Failure(task, NotFoundMsg(tool_name)),
            cache |-> results_cache, rec |-> rec0, escaped |-> FALSE]
      ELSE IF tool_name = "build_query"
      THEN Finish(task, results_cache, rec0,
                  build_query(task.sub_task, "2d", env.now), env.raises)
      ELSE IF tool_name \in SearchTools
      THEN LET sb == SearchBase(task, results_cache, env.now)
               refined == SearchQuery(sb.base_query, tool_name)
               rec1 == [rec0 EXCEPT !.prev_result = sb.prev_result, !.built = sb.built,
                                    !.base_query = sb.base_query]
               cache1 == CacheAfterRefine(task, results_cache, env.now)
           IN  IF refined = Exc
               THEN [outcome |-> Failure(task, RefineMsg), cache |-> cache1,
                     rec |-> rec1, escaped |-> FALSE]
               ELSE Finish(task, cache1,
                           [rec1 EXCEPT !.query = refined,
                              !.backend = BackendStatus(tool_name, None,
                                                        client, env.resp)],
                           CallTool(tool_name, refined, None, client, env.resp),
                           env.raises)
      ELSE LET agent_name == AgentName(task, results_cache)
               deps == task.dependent_on_tasks
               rec1 == [rec0 EXCEPT !.agent_name = agent_name,
                          !.backend = BackendStatus(tool_name, agent_name,
                                                    client, env.resp),
                          !.prev_result = IF Len(deps) > 0
                                          THEN CacheGet(results_cache, deps[1]) ELSE None]
           IN  Finish(task, results_cache, rec1,
                      CallTool(tool_name, None, agent_name, client, env.resp),
                      env.raises)

\* ------------------------------------------------------------------------
\* Plans handed to run_execution_plan
\* ------------------------------------------------------------------------
IdNames == <<"t1", "t2", "t3", "t4", "t5">>
Id(i) == IdNames[i]
\* an identifier no task of any plan carries
Dangling == "t9"
UnknownTool == "nonexistent_tool"

SearchToolNames == <<"search_raw_logs", "search_alerts", "search_vulnerabilities">>
\* the search tool a task at position i may name: the three tools rotate with the
\* position, so that every one of them is exercised without multiplying the plans
SearchToolAt(i) == SearchToolNames[((i - 1) % 3) + 1]
ToolsAt(i) == {"build_query", SearchToolAt(i), "get_agent_data", UnknownTool}

Min(a, b) == IF a < b THEN a ELSE b

\* dependency lists of at most k entries over the ids of an n-task plan and Dangling
DepChoices(n, k) == SeqsUpTo({Id(j) : j \in 1..n} \cup {Dangling}, k)

TasksAt(i, n, k) ==
  {[task_id |-> Id(i), sub_task |-> "goal", tool_name |-> tn, dependent_on_tasks |-> ds] :
     tn \in ToolsAt(i), ds \in DepChoices(n, k)}

\* task sequences for positions i..n declaring at most e dependencies in total
RECURSIVE BuildTasks(_, _, _)
BuildTasks(i, n, e) ==
  IF i > n THEN {<<>>}
  ELSE UNION {{<<t>> \o rest : rest \in BuildTasks(i + 1, n, e - Len(t.dependent_on_tasks))} :
                t \in TasksAt(i, n, Min(e, MaxDeps))}

\* task sequences with unique ids: the i-th task is named Id(i)
TaskSeqs == UNION {BuildTasks(1, n, MaxEdges) : n \in 0..MaxTasks}

\* None, {}, a dict without 'plans', and dicts with a task sequence
Plans ==
  {None, D(EmptyFn), D("goal" :> S("goal"))} \cup {D("plans" :> ts) : ts \in TaskSeqs}

\* ------------------------------------------------------------------------
\* State
\* ------------------------------------------------------------------------
VARIABLES
  plan,               \* the argument of run_execution_plan
  opensearch_client,  \* TRUE iff the module-level client was created (main_opensearch.py:20-32)
  faulty,             \* TRUE iff the registry's callables may raise
  pc,                 \* "start", "loop", "done"
  ti,                 \* index of the task of the outer loop
  di,                 \* index of the dependency of the inner loop
  results_cache,
  task_results,
  ret,                \* the value run_execution_plan returned
  log                 \* history: one record per call of execute_task

execVars == <<plan, opensearch_client, faulty, pc, ti, di, results_cache, task_results, ret, log>>

\* refine_query_for_tool called on its own (executor_agent.py:54-75)
VARIABLES
  rq_base,     \* the base query first handed to refine_query_for_tool
  rq_value,    \* the value the last call returned (rq_base before any call)
  rq_applied   \* the tool names of the calls made, in order

refineVars == <<rq_base, rq_value, rq_applied>>

\* execute_task called on its own with a given Result Cache (executor_agent.py:81-182)
VARIABLES
  et_task,     \* the task argument
  et_cache,    \* the results_cache argument as it was when the call began
  et_result    \* None before the call; then what the call returned and did

taskVars == <<et_task, et_cache, et_result>>

\* two calls of run_execution_plan in flight at once (executor_agent.py:188-228)
VARIABLES
  runs,        \* per call: its plan, position, task_results and returned value
  caches       \* the results_cache dicts, by the slot that holds them

runVars == <<runs, caches>>

\* the audit log and the calls of log_step writing to it (audit_logger.py)
VARIABLES
  audit_file,    \* what AUDIT_FILE holds on disk
  audit_before,  \* what it held before the calls
  writers        \* per call of log_step: its position, entry and loaded data

auditVars == <<audit_file, audit_before, writers>>

\* one investigation request going through mcp_server.py and orchestrator.py
VARIABLES
  srv          \* the request, the position in its handlers and their locals

serverVars == <<srv>>

vars == <<execVars, refineVars, taskVars, runVars, auditVars, serverVars>>
\* what a step of the executor leaves alone
nonExecVars == <<refineVars, taskVars, runVars, auditVars, serverVars>>
\* what a call of refine_query_for_tool on its own leaves alone
nonRefineVars == <<execVars, taskVars, runVars, auditVars, serverVars>>
\* what a call of execute_task on its own leaves alone
nonTaskVars == <<execVars, refineVars, runVars, auditVars, serverVars>>
\* what a step of one of two concurrent runs leaves alone
nonRunVars == <<execVars, refineVars, taskVars, auditVars, serverVars>>
\* what a step of log_step leaves alone
nonAuditVars == <<execVars, refineVars, taskVars, runVars, serverVars>>
\* what a step of a request leaves alone
nonServerVars == <<execVars, refineVars, taskVars, runVars, auditVars>>

Tasks == IF IsDict(plan) /\ Has(plan, "plans") THEN Get(plan, "plans") ELSE <<>>
NTasks == Len(Tasks)
TaskIds == {Tasks[k].task_id : k \in 1..NTasks}

\* a lookup that falls back to the first task instead of None
FindTaskOrFirst(dep_id) ==
  IF \E k \in 1..NTasks : Tasks[k].task_id = dep_id
  THEN CHOOSE k \in 1..NTasks :
         /\ Tasks[k].task_id = dep_id
         /\ \A m \in 1..(k - 1) : Tasks[m].task_id # dep_id
  ELSE IF NTasks > 0 THEN 1 ELSE 0

\* next((t for t in plan["plans"] if t["task_id"] == dep_id), None), as an index (0: None)
FindTask(dep_id) ==
  IF \E k \in 1..NTasks : Tasks[k].task_id = dep_id
  THEN CHOOSE k \in 1..NTasks :
         /\ Tasks[k].task_id = dep_id
         /\ \A m \in 1..(k - 1) : Tasks[m].task_id # dep_id
  ELSE 0

\* an aggregation in which the first result of a task id wins
RECURSIVE AggregateFirstWins(_)
AggregateFirstWins(trace) ==
  IF trace = <<>> THEN EmptyFn
  ELSE LET front == AggregateFirstWins(SubSeq(trace, 1, Len(trace) - 1))
           r == trace[Len(trace)]
       IN  IF "result" \in DOMAIN r THEN front @@ (r.task_id :> r.result) ELSE front

\* the dict comprehension of lines 216-220, entries taken in trace order
RECURSIVE Aggregate(_)
Aggregate(trace) ==
  IF trace = <<>> THEN EmptyFn
  ELSE LET front == Aggregate(SubSeq(trace, 1, Len(trace) - 1))
           r == trace[Len(trace)]
       IN  IF "result" \in DOMAIN r THEN (r.task_id :> r.result) @@ front ELSE front

\* what the environment decides during one call of execute_task
Envs == [now : Times, resp : BackendResponses, raises : IF faulty THEN BOOLEAN ELSE {FALSE}]

\* `if not plan`, the membership test forgotten
PlanInvalidNoKeyTest == ~Truthy(plan)

\* line 193: `not plan or "plans" not in plan`
PlanInvalid == ~(Truthy(plan) /\ Has(plan, "plans"))

TypeOK ==
  /\ pc \in {"idle", "start", "loop", "done", "raised"}
  /\ ti \in 1..(MaxTasks + 1)
  /\ di \in 1..(MaxDeps + 1)
  /\ opensearch_client \in BOOLEAN
  /\ faulty \in BOOLEAN
  /\ Len(log) = Len(task_results)

InitRun ==
  /\ plan \in Plans
  /\ opensearch_client \in BOOLEAN
  /\ pc = "start"
  /\ ti = 1
  /\ di = 1
  /\ results_cache = EmptyFn
  /\ task_results = <<>>
  /\ ret = None
  /\ log = <<>>

\* no call of refine_query_for_tool outside a run
RefineIdle == rq_base = None /\ rq_value = None /\ rq_applied = <<>>
\* no call of execute_task outside a run
TaskIdle == et_task = None /\ et_cache = EmptyFn /\ et_result = None
\* no run of the executor
ExecIdle ==
  /\ plan = None /\ faulty = FALSE /\ pc = "idle"
  /\ ti = 1 /\ di = 1 /\ results_cache = EmptyFn /\ task_results = <<>>
  /\ ret = None /\ log = <<>>
\* no concurrent calls of run_execution_plan
RunsIdle == runs = <<>> /\ caches = <<>>
\* no call of log_step
AuditIdle == audit_file = None /\ audit_before = None /\ writers = <<>>
\* no request
ServerIdle == srv = None
\* every part of the program but part c is at rest
IdleExcept(c) ==
  /\ IF c # "exec" THEN ExecIdle ELSE TRUE
  /\ IF c # "refine" THEN RefineIdle ELSE TRUE
  /\ IF c # "task" THEN TaskIdle ELSE TRUE
  /\ IF c # "runs" THEN RunsIdle ELSE TRUE
  /\ IF c # "audit" THEN AuditIdle ELSE TRUE
  /\ IF c # "server" THEN ServerIdle ELSE TRUE
\* while the executor runs, nothing else of the program does
OthersIdle == IdleExcept("exec")

\* plans of at most MaxLoopTasks tasks in which every task may declare any
\* of the plan's ids, its own included, up to MaxDeps times: self-dependencies
\* and cycles of every shape; a tool that succeeds and one that is unknown
LoopTasksAt(i, n) ==
  {[task_id |-> Id(i), sub_task |-> "goal", tool_name |-> tn, dependent_on_tasks |-> ds] :
     tn \in {"build_query", UnknownTool},
     ds \in SeqsUpTo({Id(j) : j \in 1..n}, MaxDeps)}
LoopPlans ==
  {None} \cup
  UNION {{D("plans" :> ts) : ts \in {s \in [1..n -> UNION {LoopTasksAt(i, n) : i \in 1..n}] :
                                       \A i \in 1..n : s[i] \in LoopTasksAt(i, n)}} :
           n \in 0..MaxLoopTasks}
\* runs over those plans, with tools that may raise
InitTerminating ==
  /\ plan \in LoopPlans
  /\ opensearch_client = TRUE
  /\ faulty = TRUE
  /\ pc = "start"
  /\ ti = 1
  /\ di = 1
  /\ results_cache = EmptyFn
  /\ task_results = <<>>
  /\ ret = None
  /\ log = <<>>
  /\ IdleExcept("exec")

\* the registry holds the tools of main_opensearch.py
Init == InitRun /\ faulty = FALSE /\ OthersIdle
\* the registry's callables may also raise
InitFaulty == InitRun /\ faulty = TRUE /\ OthersIdle

\* lines 193-194
InvalidPlan ==
  /\ pc = "start"
  /\ PlanInvalid
  /\ ret' = [status |-> FALSE, error |-> "Invalid plan format"]
  /\ pc' = "done"
  /\ UNCHANGED <<plan, opensearch_client, faulty, ti, di, results_cache, task_results, log>>
  /\ UNCHANGED nonExecVars

\* lines 196-200; plan["plans"] of a plan without that key raises KeyError
Start ==
  /\ pc = "start"
  /\ ~PlanInvalid
  /\ results_cache' = EmptyFn
  /\ task_results' = <<>>
  /\ ti' = 1
  /\ di' = 1
  /\ pc' = IF IsDict(plan) /\ Has(plan, "plans") THEN "loop" ELSE "raised"
  /\ UNCHANGED <<plan, opensearch_client, faulty, ret, log>>
  /\ UNCHANGED nonExecVars

\* the entries of every task but task_id are in `after` what they were in `before`
OthersKept(task_id, before, after) ==
  \A id \in DOMAIN before \ {task_id} : id \in DOMAIN after /\ after[id] = before[id]

\* bookkeeping that records only the outcomes carrying a result
DispatchedResultsOnly(r, via, dep_id) ==
  /\ results_cache' = r.cache
  /\ task_results' = IF r.escaped \/ "error" \in DOMAIN r.outcome THEN task_results
                      ELSE Append(task_results, r.outcome)
  /\ log' = IF r.escaped \/ "error" \in DOMAIN r.outcome THEN log
            ELSE Append(log, [rec |-> r.rec, via |-> via, for |-> ti, dep |-> dep_id,
                              cache_changed |-> r.cache # results_cache,
                              others_kept |-> OthersKept(r.rec.task_id, results_cache,
                                                         r.cache)])
  /\ pc' = IF r.escaped THEN "raised" ELSE pc

\* the runner's bookkeeping around one call r of execute_task: append the outcome
\* to the trace, or let an exception that escaped the call end the run
Dispatched(r, via, dep_id) ==
  /\ results_cache' = r.cache
  /\ task_results' = IF r.escaped THEN task_results ELSE Append(task_results, r.outcome)
  /\ log' = IF r.escaped THEN log
            ELSE Append(log, [rec |-> r.rec, via |-> via, for |-> ti, dep |-> dep_id,
                              cache_changed |-> r.cache # results_cache,
                              others_kept |-> OthersKept(r.rec.task_id, results_cache,
                                                         r.cache)])
  /\ pc' = IF r.escaped THEN "raised" ELSE pc

\* lines 205-208, a dependency that is cached or names no task: nothing to do
SkipDependency ==
  /\ pc = "loop"
  /\ ti <= NTasks
  /\ di <= Len(Tasks[ti].dependent_on_tasks)
  /\ LET dep_id == Tasks[ti].dependent_on_tasks[di]
     IN  dep_id \in DOMAIN results_cache \/ FindTask(dep_id) = 0
  /\ di' = di + 1
  /\ UNCHANGED <<plan, opensearch_client, faulty, pc, ti, results_cache, task_results, ret, log>>
  /\ UNCHANGED nonExecVars

\* a resolution that first descends into the dependency's own dependencies
ResolveDependencyDeep ==
  /\ pc = "loop"
  /\ ti <= NTasks
  /\ di <= Len(Tasks[ti].dependent_on_tasks)
  /\ LET dep_id == Tasks[ti].dependent_on_tasks[di]
         inner == IF FindTask(dep_id) = 0 THEN {}
                  ELSE {d \in {Tasks[FindTask(dep_id)].dependent_on_tasks[n] :
                                 n \in 1..Len(Tasks[FindTask(dep_id)].dependent_on_tasks)} :
                          d \notin DOMAIN results_cache /\ FindTask(d) # 0}
     IN  /\ dep_id \notin DOMAIN results_cache
         /\ FindTask(dep_id) # 0
         /\ IF inner # {}
            THEN /\ \E d \in inner : \E env \in Envs :
                      Dispatched(execute_task(Tasks[FindTask(d)], results_cache,
                                              opensearch_client, env), "dependency", d)
                 /\ di' = di
            ELSE /\ \E env \in Envs :
                      Dispatched(execute_task(Tasks[FindTask(dep_id)], results_cache,
                                              opensearch_client, env), "dependency", dep_id)
                 /\ di' = di + 1
  /\ UNCHANGED <<plan, opensearch_client, faulty, ti, ret>>
  /\ UNCHANGED nonExecVars

\* a resolution that stays on the dependency until the cache holds it
ResolveDependencyUntilCached ==
  /\ pc = "loop"
  /\ ti <= NTasks
  /\ di <= Len(Tasks[ti].dependent_on_tasks)
  /\ LET dep_id == Tasks[ti].dependent_on_tasks[di]
     IN  /\ dep_id \notin DOMAIN results_cache
         /\ FindTask(dep_id) # 0
         /\ \E env \in Envs :
              Dispatched(execute_task(Tasks[FindTask(dep_id)], results_cache,
                                      opensearch_client, env), "dependency", dep_id)
  /\ di' = di
  /\ UNCHANGED <<plan, opensearch_client, faulty, ti, ret>>
  /\ UNCHANGED nonExecVars

\* a resolution that does not look into the cache: line 206 left out
ResolveDependencyCached ==
  /\ pc = "loop"
  /\ ti <= NTasks
  /\ di <= Len(Tasks[ti].dependent_on_tasks)
  /\ LET dep_id == Tasks[ti].dependent_on_tasks[di]
     IN  /\ FindTask(dep_id) # 0
         /\ \E env \in Envs :
              Dispatched(execute_task(Tasks[FindTask(dep_id)], results_cache,
                                      opensearch_client, env), "dependency", dep_id)
  /\ di' = di + 1
  /\ UNCHANGED <<plan, opensearch_client, faulty, ti, ret>>
  /\ UNCHANGED nonExecVars

\* lines 205-210, a dependency absent from the cache and defined in the plan
ResolveDependency ==
  /\ pc = "loop"
  /\ ti <= NTasks
  /\ di <= Len(Tasks[ti].dependent_on_tasks)
  /\ LET dep_id == Tasks[ti].dependent_on_tasks[di]
     IN  /\ dep_id \notin DOMAIN results_cache
         /\ FindTask(dep_id) # 0
         /\ \E env \in Envs :
              Dispatched(execute_task(Tasks[FindTask(dep_id)], results_cache,
                                      opensearch_client, env), "dependency", dep_id)
  /\ di' = di + 1
  /\ UNCHANGED <<plan, opensearch_client, faulty, ti, ret>>
  /\ UNCHANGED nonExecVars

\* lines 213-214
ExecuteCurrent ==
  /\ pc = "loop"
  /\ ti <= NTasks
  /\ di > Len(Tasks[ti].dependent_on_tasks)
  /\ \E env \in Envs :
       Dispatched(execute_task(Tasks[ti], results_cache, opensearch_client, env),
                  "task", Tasks[ti].task_id)
  /\ ti' = ti + 1
  /\ di' = 1
  /\ UNCHANGED <<plan, opensearch_client, faulty, ret>>
  /\ UNCHANGED nonExecVars

\* a return whose status tells whether every dispatch succeeded
ReturnStatusOfOutcomes ==
  /\ pc = "loop"
  /\ ti > NTasks
  /\ ret' = [status |-> \A k \in 1..Len(task_results) : "result" \in DOMAIN task_results[k],
             task_results |-> task_results,
             aggregated_results |-> Aggregate(task_results)]
  /\ pc' = "done"
  /\ UNCHANGED <<plan, opensearch_client, faulty, ti, di, results_cache, task_results, log>>
  /\ UNCHANGED nonExecVars

\* lines 216-228 (executed_at, a wall-clock stamp, is not carried)
Return ==
  /\ pc = "loop"
  /\ ti > NTasks
  /\ ret' = [status |-> TRUE, task_results |-> task_results,
             aggregated_results |-> Aggregate(task_results)]
  /\ pc' = "done"
  /\ UNCHANGED <<plan, opensearch_client, faulty, ti, di, results_cache, task_results, log>>
  /\ UNCHANGED nonExecVars

Next ==
  \/ InvalidPlan
  \/ Start
  \/ SkipDependency
  \/ ResolveDependency
  \/ ExecuteCurrent
  \/ Return

Spec == Init /\ [][Next]_vars
SpecFaulty == InitFaulty /\ [][Next]_vars
\* every tool invocation returns and the event loop goes on with the
\* coroutine: a step that can be taken is taken
SpecTerminating == InitTerminating /\ [][Next]_vars /\ WF_vars(Next)

\* ------------------------------------------------------------------------
\* Vocabulary of the properties
\* ------------------------------------------------------------------------
Range(f) == {f[k] : k \in DOMAIN f}
IsSuccess(r) == DOMAIN r = {"task_id", "result"}
IsFailure(r) == DOMAIN r = {"task_id", "error"}
\* position in the plan of the task a log entry dispatched
PosOf(e) == FindTask(e.rec.task_id)
DepsOf(i) == Tasks[i].dependent_on_tasks
\* positions task i depends on directly
Direct(i) == {FindTask(d) : d \in Range(DepsOf(i))} \ {0}
RECURSIVE Closure(_, _)
Closure(P, n) == IF n = 0 THEN P ELSE Closure(P \cup UNION {Direct(i) : i \in P}, n - 1)
Acyclic == \A i \in 1..NTasks : i \notin Closure(Direct(i), NTasks)
AllDepsDefined == \A i \in 1..NTasks : Range(DepsOf(i)) \subseteq TaskIds
NoDeps == \A i \in 1..NTasks : DepsOf(i) = <<>>
Returned == pc = "done" /\ ret.status
\* trace positions holding a result for task id
ResultEntries(trace, id) ==
  {k \in 1..Len(trace) : trace[k].task_id = id /\ "result" \in DOMAIN trace[k]}

\* ------------------------------------------------------------------------
\* C1: in every run over a plan whose dependencies all name tasks of the plan
\* (taken here without dependency cycles), a task is dispatched only after each
\* of its declared dependencies has been dispatched at least once.
\* ------------------------------------------------------------------------
C1_DependenciesDispatchedFirst ==
  (AllDepsDefined /\ Acyclic) =>
    \A k \in 1..Len(log) :
      \A d \in Range(DepsOf(PosOf(log[k]))) :
        \E j \in 1..(k - 1) : log[j].rec.task_id = d

\* ------------------------------------------------------------------------
\* C2: within one run the Result Cache entry of a task id is written at most
\* once: the trace holds at most one result-carrying outcome per task id (each
\* such outcome is one write of line 175), and the cache holds that result.
\* Stated for plans whose dependencies name tasks of the plan and form no cycle.
\* ------------------------------------------------------------------------
C2_CacheWrittenOnce ==
  (AllDepsDefined /\ Acyclic) =>
    \A id \in TaskIds :
      /\ Cardinality(ResultEntries(task_results, id)) <= 1
      /\ \A k \in ResultEntries(task_results, id) :
           id \in DOMAIN results_cache /\ results_cache[id] = task_results[k].result

\* ------------------------------------------------------------------------
\* C3: a tool invocation that raises yields the failure outcome {task_id, error}
\* of that dispatch, the exception never ends the run, and every task later in
\* plan order is still dispatched and has its outcome in the returned trace.
\* ------------------------------------------------------------------------
C3_RaiseIsIsolated ==
  /\ pc # "raised"
  /\ \A k \in 1..Len(log) :
       log[k].rec.raised =>
         /\ IsFailure(task_results[k])
         /\ task_results[k].task_id = log[k].rec.task_id
         /\ Returned =>
              /\ ret.task_results = task_results
              /\ \A i \in 1..NTasks :
                   (i > log[k].for \/ (i = log[k].for /\ log[k].via = "dependency")) =>
                     \E m \in (k + 1)..Len(log) :
                       /\ log[m].via = "task"
                       /\ log[m].for = i
                       /\ ret.task_results[m].task_id = Tasks[i].task_id

\* a run has returned in which a dispatch raised and a later task was dispatched
C3_Witness ==
  /\ Returned
  /\ \E k \in 1..Len(log) : log[k].rec.raised /\ log[k].for < NTasks

\* ------------------------------------------------------------------------
\* C4: whenever the backend behind a search-style or agent-lookup tool fails
\* (client unavailable, or the search call errors) the task's outcome is a
\* failure outcome and the task has no entry in aggregated_results.
\* ------------------------------------------------------------------------
C4_BackendFailureIsFailureOutcome ==
  \A k \in 1..Len(log) :
    log[k].rec.backend \in {"unavailable", "error"} =>
      /\ IsFailure(task_results[k])
      /\ Returned => log[k].rec.task_id \notin DOMAIN ret.aggregated_results

\* ------------------------------------------------------------------------
\* More vocabulary
\* ------------------------------------------------------------------------
MaxOf(P) == CHOOSE m \in P : \A x \in P : x <= m
\* the Result Cache entry of id when the k-th dispatch began: the result of the
\* last earlier outcome of id carrying one, None when there is none
CachedBefore(k, id) ==
  LET E == {j \in ResultEntries(task_results, id) : j < k}
  IN  IF E = {} THEN None ELSE task_results[MaxOf(E)].result
\* the values "derived from" a recorded result v: v itself or its nested 'query' object
DerivedFrom(v) ==
  {v} \cup (IF IsDict(v) /\ Has(v, "query") /\ IsDict(Get(v, "query"))
            THEN {Get(v, "query")} ELSE {})
\* the base queries a fresh build_query call synthesizes for a sub-goal
Synthesized(sub_task) == {Get(build_query(sub_task, "2d", now), "query") : now \in Times}
\* the k-th dispatch is of a search task whose first dependency is an earlier task
SearchAfterDependency(k) ==
  LET i == PosOf(log[k])
  IN  /\ log[k].rec.tool_name \in SearchTools
      /\ DepsOf(i) # <<>>
      /\ FindTask(DepsOf(i)[1]) \in 1..(i - 1)
FirstDep(k) == DepsOf(PosOf(log[k]))[1]
Contains(msg, piece) == \E n \in 1..Len(msg) : msg[n] = piece

\* ------------------------------------------------------------------------
\* C5 (as claimed): for a search task whose first declared dependency is an
\* earlier task that has recorded a result, the base query handed to
\* refine_query_for_tool is derived from that result and build_query is not
\* called, whatever the recorded value.
\* ------------------------------------------------------------------------
C5_AsClaimed ==
  \A k \in 1..Len(log) :
    (SearchAfterDependency(k) /\ CachedBefore(k, FirstDep(k)) # None) =>
      /\ ~log[k].rec.built
      /\ log[k].rec.base_query \in DerivedFrom(CachedBefore(k, FirstDep(k)))

\* ------------------------------------------------------------------------
\* C5 (amended): for a search task whose first declared dependency is an earlier
\* task, the base query is derived from the dependency's recorded result when
\* that result (its nested 'query' object when it has one) is non-empty;
\* when the dependency recorded nothing or an empty value, the base query is
\* synthesized by build_query from the task's sub-goal.
\* ------------------------------------------------------------------------
C5_BaseQueryFromDependency ==
  \A k \in 1..Len(log) :
    SearchAfterDependency(k) =>
      LET prev == CachedBefore(k, FirstDep(k))
      IN  IF Truthy(prev) /\ (\A v \in DerivedFrom(prev) : Truthy(v))
          THEN /\ ~log[k].rec.built
               /\ log[k].rec.base_query \in DerivedFrom(prev)
          ELSE /\ log[k].rec.built
               /\ log[k].rec.base_query \in Synthesized(Tasks[PosOf(log[k])].sub_task)

\* a search task took its base query from a non-empty result of its dependency
C5_Witness ==
  \E k \in 1..Len(log) :
    /\ SearchAfterDependency(k)
    /\ Truthy(CachedBefore(k, FirstDep(k)))
    /\ ~log[k].rec.built
    /\ log[k].rec.invoked

\* ------------------------------------------------------------------------
\* Unresolvable dependencies
\* ------------------------------------------------------------------------
\* the k-th dispatch is of a task declaring a dependency id that names no task
HasUndefinedDep(k) == \E d \in Range(DepsOf(PosOf(log[k]))) : d \notin TaskIds
\* ... and that id is the first one it declares
FirstDepUndefined(k) ==
  DepsOf(PosOf(log[k])) # <<>> /\ FirstDep(k) \notin TaskIds
\* dependency resolution dispatches only tasks of the plan, under the id asked for
NothingForUndefinedIds ==
  \A k \in 1..Len(log) :
    log[k].via = "dependency" =>
      log[k].dep \in TaskIds /\ log[k].rec.task_id = log[k].dep
\* a task with an unresolvable dependency is dispatched all the same, and a tool
\* of the registry then completes with a success outcome
StillDispatched ==
  /\ \A k \in 1..Len(log) :
       (HasUndefinedDep(k) /\ log[k].rec.tool_name \in TOOL_MAPPING) =>
         IsSuccess(task_results[k]) /\ log[k].rec.invoked
  /\ Returned =>
       \A i \in 1..NTasks :
         (\E d \in Range(DepsOf(i)) : d \notin TaskIds) =>
           \E k \in 1..Len(log) : log[k].via = "task" /\ log[k].for = i /\ PosOf(log[k]) = i
\* the fallback: a synthesized base query, no agent name
FallsBack(k) ==
  /\ log[k].rec.tool_name \in SearchTools =>
       /\ log[k].rec.built
       /\ log[k].rec.base_query \in Synthesized(Tasks[PosOf(log[k])].sub_task)
  /\ log[k].rec.tool_name = "get_agent_data" => log[k].rec.agent_name = None

\* ------------------------------------------------------------------------
\* C6 (as claimed): a dependency id naming no task is never dispatched, the task
\* declaring it is still dispatched and succeeds, a search-style task falling
\* back to a query synthesized by build_query and a get_agent_data task being
\* invoked with no agent name (the fallback taken over plans without
\* dependency cycles).
\* ------------------------------------------------------------------------
C6_AsClaimed ==
  /\ NothingForUndefinedIds
  /\ StillDispatched
  /\ Acyclic => \A k \in 1..Len(log) : HasUndefinedDep(k) => FallsBack(k)

\* ------------------------------------------------------------------------
\* C6 (amended): as claimed, the fallback (synthesized query, no agent name)
\* being that of a task whose FIRST declared dependency names no task.
\* ------------------------------------------------------------------------
C6_UnresolvableDependency ==
  /\ NothingForUndefinedIds
  /\ StillDispatched
  /\ \A k \in 1..Len(log) : FirstDepUndefined(k) => FallsBack(k)

\* a run returned in which a search task and an agent lookup whose first
\* dependency names no task were dispatched
C6_Witness ==
  /\ Returned
  /\ \E k \in 1..Len(log) :
       FirstDepUndefined(k) /\ log[k].rec.tool_name \in SearchTools /\ log[k].rec.built
  /\ \E k \in 1..Len(log) :
       FirstDepUndefined(k) /\ log[k].rec.tool_name = "get_agent_data" /\ log[k].rec.invoked

\* ------------------------------------------------------------------------
\* C7: for a task whose tool_name is not in the registry execute_task invokes no
\* tool, leaves the Result Cache unchanged and returns an error containing
\* 'not found'; the run does not raise and returns status true, the task has no
\* entry in aggregated_results and every other task is still dispatched.
\* ------------------------------------------------------------------------
C7_UnknownTool ==
  /\ \A k \in 1..Len(log) :
       log[k].rec.tool_name \notin TOOL_MAPPING =>
         /\ ~log[k].rec.invoked /\ ~log[k].rec.built
         /\ ~log[k].cache_changed
         /\ IsFailure(task_results[k])
         /\ Contains(task_results[k].error, "not found")
  /\ (\E i \in 1..NTasks : Tasks[i].tool_name \notin TOOL_MAPPING) =>
       /\ pc # "raised"
       /\ pc = "done" =>
            /\ ret.status = TRUE
            /\ \A i \in 1..NTasks :
                 /\ Tasks[i].tool_name \notin TOOL_MAPPING =>
                      Tasks[i].task_id \notin DOMAIN ret.aggregated_results
                 /\ \E k \in 1..Len(log) :
                      log[k].via = "task" /\ log[k].for = i /\ PosOf(log[k]) = i

\* a run returned over a plan mixing an unknown tool with a task that succeeded
C7_Witness ==
  /\ Returned
  /\ \E k \in 1..Len(log) : log[k].rec.tool_name \notin TOOL_MAPPING
  /\ \E k \in 1..Len(log) : IsSuccess(task_results[k]) /\ log[k].for > 1

\* ------------------------------------------------------------------------
\* C8: in the returned output aggregated_results has a key for task id t iff the
\* trace holds an entry for t carrying a result, its value is the result of the
\* last such entry, and every outcome, failures included, is in task_results.
\* ------------------------------------------------------------------------
C8_Aggregation ==
  Returned =>
    LET agg == ret.aggregated_results
        tr == ret.task_results
    IN  /\ tr = task_results
        /\ Len(tr) = Len(log)
        /\ \A k \in 1..Len(log) : tr[k].task_id = log[k].rec.task_id
        /\ DOMAIN agg = {tr[k].task_id : k \in {j \in 1..Len(tr) : "result" \in DOMAIN tr[j]}}
        /\ \A id \in DOMAIN agg : agg[id] = tr[MaxOf(ResultEntries(tr, id))].result

\* a returned trace with two different results of one task and a failure
C8_Witness ==
  /\ Returned
  /\ \E j, k \in 1..Len(task_results) :
       /\ j < k
       /\ IsSuccess(task_results[j]) /\ IsSuccess(task_results[k])
       /\ task_results[j].task_id = task_results[k].task_id
       /\ task_results[j].result # task_results[k].result
  /\ \E k \in 1..Len(task_results) : IsFailure(task_results[k])

\* ------------------------------------------------------------------------
\* C9: over a plan in which no task declares a dependency the tasks are
\* dispatched exactly once each in plan order, and aggregated_results has
\* exactly the tasks whose dispatch succeeded.
\* ------------------------------------------------------------------------
C9_NoDependencies ==
  NoDeps =>
    /\ Len(task_results) <= NTasks
    /\ \A k \in 1..Len(task_results) :
         task_results[k].task_id = Tasks[k].task_id /\ log[k].via = "task"
    /\ pc = "loop" => Len(task_results) = ti - 1
    /\ Returned =>
         /\ ret.task_results = task_results
         /\ Len(task_results) = NTasks
         /\ DOMAIN ret.aggregated_results =
              {Tasks[i].task_id : i \in {j \in 1..NTasks : IsSuccess(task_results[j])}}
         /\ \A i \in 1..NTasks :
              IsSuccess(task_results[i]) =>
                ret.aggregated_results[Tasks[i].task_id] = task_results[i].result

\* a dependency-free plan returned with a success and a failure
C9_Witness ==
  /\ Returned
  /\ NoDeps
  /\ NTasks >= 2
  /\ \E k \in 1..Len(task_results) : IsSuccess(task_results[k])
  /\ \E k \in 1..Len(task_results) : IsFailure(task_results[k])

\* ------------------------------------------------------------------------
\* C10: when the plan is absent, empty or has no 'plans' entry the run returns
\* {status: false, error} without raising, dispatching no task and invoking no
\* tool.
\* ------------------------------------------------------------------------
NoTaskSequence == plan.t = "none" \/ (IsDict(plan) /\ "plans" \notin DOMAIN plan.v)

C10_InvalidPlan ==
  NoTaskSequence =>
    /\ pc \in {"start", "done"}
    /\ log = <<>>
    /\ task_results = <<>>
    /\ pc = "done" => (DOMAIN ret = {"status", "error"} /\ ret.status = FALSE)

\* a non-empty plan object without a task sequence was turned down
C10_Witness ==
  /\ pc = "done"
  /\ IsDict(plan) /\ DOMAIN plan.v = {"goal"}
  /\ ret.status = FALSE

\* ------------------------------------------------------------------------
\* One-level resolution
\* ------------------------------------------------------------------------
\* id had an entry in the Result Cache when the k-th dispatch began
InCacheBefore(k, id) == \E j \in ResultEntries(task_results, id) : j < k
\* the trace from its k-th entry on, read against the loop standing at task i,
\* dependency d: "mismatch" when an entry is not the one the loop dispatches
\* next, "complete" when the loop ends with the trace, "prefix" when the trace
\* ends with dispatches of the loop still to come
RECURSIVE OneLevel(_, _, _)
OneLevel(i, d, k) ==
  IF i > NTasks THEN (IF k > Len(log) THEN "complete" ELSE "mismatch")
  ELSE IF d <= Len(DepsOf(i))
  THEN LET dep == DepsOf(i)[d]
       IN  IF InCacheBefore(k, dep) \/ dep \notin TaskIds
           THEN OneLevel(i, d + 1, k)
           ELSE IF k > Len(log) THEN "prefix"
           ELSE IF log[k].rec.task_id = dep /\ task_results[k].task_id = dep
                   /\ log[k].via = "dependency" /\ log[k].for = i
           THEN OneLevel(i, d + 1, k + 1)
           ELSE "mismatch"
  ELSE IF k > Len(log) THEN "prefix"
  ELSE IF log[k].rec.task_id = Tasks[i].task_id /\ task_results[k].task_id = Tasks[i].task_id
          /\ log[k].via = "task" /\ log[k].for = i
  THEN OneLevel(i + 1, 1, k + 1)
  ELSE "mismatch"

\* the task ids of the dispatches, in order
DispatchedIds == [k \in 1..Len(log) |-> log[k].rec.task_id]

\* ------------------------------------------------------------------------
\* C11: dependency resolution is exactly one level deep: the trace is, for each
\* task in plan order, the outcomes of those of its declared dependencies (in
\* declared order) that are absent from the Result Cache at that moment and
\* name a task of the plan, followed by the task's own outcome; the returned
\* trace is that sequence in full.
\* ------------------------------------------------------------------------
C11_OneLevelResolution ==
  /\ OneLevel(1, 1, 1) # "mismatch"
  /\ Returned => (OneLevel(1, 1, 1) = "complete" /\ ret.task_results = task_results)

\* the chain [t1 deps t2, t2 deps t3, t3] returned after dispatching t2, t1, t3, t2, t3
C11_Witness ==
  /\ Returned
  /\ NTasks = 3
  /\ DepsOf(1) = <<"t2">> /\ DepsOf(2) = <<"t3">> /\ DepsOf(3) = <<>>
  /\ DispatchedIds = <<"t2", "t1", "t3", "t2", "t3">>

\* ------------------------------------------------------------------------
\* C12: for a plan that has a task sequence, the run never ends in an
\* exception and, once the loop has gone through every task, it returns status
\* true with the trace, whatever number of dispatches (all of them included)
\* ended in a failure outcome.
\* ------------------------------------------------------------------------
HasTaskSequence == IsDict(plan) /\ Has(plan, "plans")

C12_StatusTrueAfterLoop ==
  HasTaskSequence =>
    /\ pc # "raised"
    /\ pc = "done" =>
         /\ DOMAIN ret = {"status", "task_results", "aggregated_results"}
         /\ ret.status = TRUE
         /\ ret.task_results = task_results
         /\ ti = NTasks + 1
         /\ \A i \in 1..NTasks :
              \E k \in 1..Len(log) : log[k].via = "task" /\ log[k].for = i

\* a run returned in which every dispatch failed, by an unknown tool and by a
\* tool that raised
C12_Witness ==
  /\ pc = "done"
  /\ HasTaskSequence
  /\ NTasks >= 2
  /\ \A k \in 1..Len(task_results) : IsFailure(task_results[k])
  /\ \E k \in 1..Len(log) : log[k].rec.raised
  /\ \E k \in 1..Len(log) : log[k].rec.tool_name \notin TOOL_MAPPING

\* ------------------------------------------------------------------------
\* C22: a dispatch that ends in a failure outcome, by an unknown tool or by an
\* exception in execute_task, leaves the Result Cache exactly as it was before
\* the call; and at every moment of a run a task id is a key of the cache if
\* and only if some dispatch of that task has succeeded.
\* ------------------------------------------------------------------------
C22_FailureLeavesCache ==
  /\ \A k \in 1..Len(log) : IsFailure(task_results[k]) => ~log[k].cache_changed
  /\ \A id \in TaskIds \cup DOMAIN results_cache :
       id \in DOMAIN results_cache <=> ResultEntries(task_results, id) # {}

\* a run has returned in which a dispatch failed on an unknown tool, another
\* because its tool raised while the cache already held an entry, and the
\* cache holds exactly the one task that succeeded
C22_Witness ==
  /\ pc = "done"
  /\ HasTaskSequence
  /\ \E k \in 1..Len(log) : log[k].rec.tool_name \notin TOOL_MAPPING
  /\ \E k \in 2..Len(log) :
       /\ log[k].rec.raised
       /\ IsSuccess(task_results[k - 1])
  /\ Cardinality(DOMAIN results_cache) = 1

\* ---- vocabulary of the properties on repeated resolution ----
\* the dispatches made as dependency dep_id of the i-th task
ResolvedFor(i, dep_id) ==
  {k \in 1..Len(log) : log[k].via = "dependency" /\ log[k].for = i /\ log[k].dep = dep_id}
\* how often the i-th task declares dep_id
Declared(i, dep_id) == Cardinality({n \in 1..Len(DepsOf(i)) : DepsOf(i)[n] = dep_id})
\* the loop moves from one declared dependency of the current task to the next
DependencyStep ==
  /\ pc = "loop"
  /\ pc' = "loop"
  /\ ti <= NTasks
  /\ ti' = ti
  /\ di' = di + 1
\* that step appended one dispatch, of dependency dep_id, to the trace
DispatchedNow(dep_id) ==
  /\ Len(log') = Len(log) + 1
  /\ Len(task_results') = Len(task_results) + 1
  /\ log'[Len(log')].via = "dependency"
  /\ log'[Len(log')].rec.task_id = dep_id
  /\ task_results'[Len(task_results')].task_id = dep_id
\* what every step on a dependency does
DispatchIffAbsentAndDefined ==
  DependencyStep =>
    /\ DispatchedNow(DepsOf(ti)[di]) <=>
         (DepsOf(ti)[di] \notin DOMAIN results_cache /\ DepsOf(ti)[di] \in TaskIds)
    /\ DispatchedNow(DepsOf(ti)[di]) \/ (log' = log /\ task_results' = task_results)
\* what the trace shows of it at every moment
RepeatedWhileFailing ==
  /\ \A i \in 1..Min(ti - 1, NTasks) : \A dep_id \in Range(DepsOf(i)) \cap TaskIds :
       ResultEntries(task_results, dep_id) = {} =>
         Cardinality(ResolvedFor(i, dep_id)) = Declared(i, dep_id)
  /\ \A k \in 1..Len(log) : \A m \in (k + 1)..Len(log) :
       (IsSuccess(task_results[k]) /\ log[m].via = "dependency")
         => log[m].rec.task_id # task_results[k].task_id

\* ------------------------------------------------------------------------
\* C23: while processing a task, the runner dispatches a declared dependency
\* if and only if its id is absent from the Result Cache at that moment and
\* names a task of the plan. Hence a dependency none of whose dispatches
\* succeeded has been dispatched once for each declaration of it by each task
\* processed so far (one trace entry each time), and a dependency that has
\* succeeded once is never dispatched again by dependency resolution.
\* ------------------------------------------------------------------------
C23_DispatchIffAbsent ==
  [][DispatchIffAbsentAndDefined]_vars /\ []RepeatedWhileFailing

\* a run has returned in which t1 failed each time: once as dependency of t2,
\* once as dependency of t3, and when it was dispatched as a task itself
C23_Witness ==
  /\ pc = "done"
  /\ HasTaskSequence
  /\ NTasks = 3
  /\ ResultEntries(task_results, "t1") = {}
  /\ ResolvedFor(2, "t1") # {}
  /\ ResolvedFor(3, "t1") # {}
  /\ \E k \in 1..Len(log) : log[k].rec.task_id = "t1" /\ log[k].rec.raised

\* ---- vocabulary of the properties on the number of dispatches ----
\* the sum over the first n tasks of 1 + the number of declared dependencies
RECURSIVE MostDispatches(_)
MostDispatches(n) == IF n = 0 THEN 0 ELSE MostDispatches(n - 1) + 1 + Len(DepsOf(n))
SelfDependent == \E i \in 1..NTasks : Tasks[i].task_id \in Range(DepsOf(i))
DispatchesBounded ==
  HasTaskSequence =>
    /\ Len(task_results) <= MostDispatches(NTasks)
    /\ pc = "done" =>
         /\ NTasks <= Len(task_results)
         /\ Len(ret.task_results) = Len(task_results)

\* ------------------------------------------------------------------------
\* C24: every run over a finite plan ends, self-dependencies and dependency
\* cycles included, when each tool invocation returns; the number of
\* dispatches never exceeds the sum over the plan's tasks of 1 + the number
\* of its declared dependencies, and at the end it is at least the number of
\* tasks.
\* ------------------------------------------------------------------------
C24_TerminatesWithinBounds == <>(pc = "done") /\ []DispatchesBounded

\* a run over a plan with a self-dependency and a cycle has ended with as many
\* dispatches as the upper bound allows
C24_Witness ==
  /\ pc = "done"
  /\ HasTaskSequence
  /\ SelfDependent
  /\ ~Acyclic
  /\ NTasks >= 2
  /\ Len(task_results) = MostDispatches(NTasks)

\* ------------------------------------------------------------------------
\* C25: when a run returns its aggregation, aggregated_results has the keys
\* of the Result Cache as it stands at the end and, for each key, the value
\* the cache holds, which is the result of the last successful dispatch of
\* that task.
\* ------------------------------------------------------------------------
C25_AggregatedIsCache ==
  (pc = "done" /\ HasTaskSequence) =>
    /\ DOMAIN ret.aggregated_results = DOMAIN results_cache
    /\ \A id \in DOMAIN results_cache :
         /\ ret.aggregated_results[id] = results_cache[id]
         /\ ResultEntries(task_results, id) # {}
         /\ results_cache[id] = task_results[MaxOf(ResultEntries(task_results, id))].result

\* a run has returned in which a task succeeded twice with different results
\* and another task failed
C25_Witness ==
  /\ pc = "done"
  /\ HasTaskSequence
  /\ \E id \in DOMAIN results_cache :
       \E k \in ResultEntries(task_results, id) : task_results[k].result # results_cache[id]
  /\ \E k \in 1..Len(task_results) : IsFailure(task_results[k])

\* ------------------------------------------------------------------------
\* refine_query_for_tool called on its own, repeatedly on its own result
\* ------------------------------------------------------------------------
\* calls of refine_query_for_tool made on one base query
MaxRefinements == 3

SshPhrase == D("match_phrase" :> D("rule.description" :> S("ssh")))
LevelAtLeast5 == D("range" :> D("rule.level" :> D("gte" :> I(5))))
OtherClause == D("term" :> D("agent.id" :> S("001")))

\* object-shaped base queries whose 'bool' (when present) is an object and whose
\* 'must' (when present) is a list
WellFormedQueries ==
  {D(EmptyFn),
   D("bool" :> D(EmptyFn)),
   D("bool" :> D("must" :> L(<<>>))),
   D("bool" :> D("must" :> L(<<OtherClause>>))),
   D("bool" :> D("must" :> L(<<SshPhrase>>))),
   ClientError}
  \cup {build_query("goal", "2d", now) : now \in Times}
  \cup {Get(build_query("goal", "2d", now), "query") : now \in Times}
\* object-shaped base queries on which setdefault or += fails
MalformedQueries ==
  {D("bool" :> S("x")),
   D("bool" :> None),
   D("bool" :> L(<<>>)),
   D("bool" :> D("must" :> OtherClause)),
   D("bool" :> D("must" :> S("x"))),
   D("bool" :> D("must" :> None))}
NonObjectQueries == {None, S("x"), S(""), L(<<>>), L(<<NamedHit>>), I(5)}
BaseQueries == WellFormedQueries \cup MalformedQueries \cup NonObjectQueries

RefineTools == SearchTools \cup {"get_agent_data"}

InitRefine ==
  /\ rq_base \in BaseQueries
  /\ rq_value = rq_base
  /\ rq_applied = <<>>
  /\ opensearch_client = FALSE
  /\ IdleExcept("refine")

\* refined = refine_query_for_tool(refined, tool_name); an exception ends the calls
Refine ==
  /\ pc = "idle"
  /\ rq_value # Exc
  /\ Len(rq_applied) < MaxRefinements
  /\ \E tool_name \in RefineTools :
       /\ rq_value' = refine_query_for_tool(rq_value, tool_name)
       /\ rq_applied' = Append(rq_applied, tool_name)
  /\ UNCHANGED rq_base
  /\ UNCHANGED nonRefineVars

NextRefine == Refine
SpecRefine == InitRefine /\ [][NextRefine]_vars

IsObject(q) == IsDict(q)
WellFormed(q) ==
  /\ IsDict(q)
  /\ Has(q, "bool") =>
       /\ IsDict(Get(q, "bool"))
       /\ Has(Get(q, "bool"), "must") => IsList(Get(Get(q, "bool"), "must"))
\* the 'must' list of a query, empty when it has none
MustOf(q) ==
  IF IsDict(q) /\ Has(q, "bool") /\ IsDict(Get(q, "bool")) /\ Has(Get(q, "bool"), "must")
     /\ IsList(Get(Get(q, "bool"), "must"))
  THEN Get(Get(q, "bool"), "must").v ELSE <<>>
HasMust(q) ==
  IsDict(q) /\ Has(q, "bool") /\ IsDict(Get(q, "bool")) /\ Has(Get(q, "bool"), "must")
  /\ IsList(Get(Get(q, "bool"), "must"))
InSeq(x, seq) == \E n \in 1..Len(seq) : seq[n] = x
\* the predicates the spec lists for each tool
RequiredPredicates(tool_name) ==
  CASE tool_name = "search_alerts" -> <<SshPhrase, LevelAtLeast5>>
    [] tool_name = "search_raw_logs" ->
         <<D("match_phrase" :> D("event.action" :> S("failure"))),
           D("match_phrase" :> D("process.name" :> S("sshd")))>>
    [] tool_name = "search_vulnerabilities" ->
         <<D("wildcard" :> D("vulnerability.id" :> S("CVE-*")))>>
    [] OTHER -> <<>>
RECURSIVE AllRequired(_)
AllRequired(tools) ==
  IF tools = <<>> THEN <<>> ELSE RequiredPredicates(Head(tools)) \o AllRequired(Tail(tools))
\* the keys of a query other than 'bool', and those of its 'bool' other than 'must'
RestOf(q) == [k \in DOMAIN q.v \ {"bool"} |-> q.v[k]]
BoolRestOf(q) ==
  IF Has(q, "bool") /\ IsDict(Get(q, "bool"))
  THEN [k \in DOMAIN Get(q, "bool").v \ {"must"} |-> Get(q, "bool").v[k]]
  ELSE EmptyFn

\* after the calls rq_applied on a base query satisfying P: the result is an
\* object whose 'must' list is the base's followed by each call's predicates
\* (repeated when a tool is repeated), the rest of the query being as it was
RefinedAsExpected ==
  /\ rq_value # Exc
  /\ IsDict(rq_value)
  /\ rq_applied # <<>> => HasMust(rq_value)
  /\ MustOf(rq_value) = MustOf(rq_base) \o AllRequired(rq_applied)
  /\ \A n \in 1..Len(rq_applied) :
       rq_applied[n] = "search_alerts" =>
         InSeq(SshPhrase, MustOf(rq_value)) /\ InSeq(LevelAtLeast5, MustOf(rq_value))
  /\ RestOf(rq_value) = RestOf(rq_base)
  /\ BoolRestOf(rq_value) = BoolRestOf(rq_base)

RefinedCachedObject(k) ==
  /\ log[k].rec.tool_name \in SearchTools
  /\ ~log[k].rec.built
  /\ IsDict(log[k].rec.base_query)
  /\ log[k].rec.invoked

C14_CacheValuesUntouched ==
  \A k \in 1..Len(log) :
    log[k].rec.tool_name \in SearchTools => log[k].others_kept

\* search tasks refined the dependency's entry itself and the 'query' object
\* nested in a dependency's entry, the refined query differing from the base
C14_Witness ==
  /\ \E k \in 1..Len(log) :
       /\ RefinedCachedObject(k)
       /\ log[k].rec.base_query = log[k].rec.prev_result
       /\ log[k].rec.query # log[k].rec.base_query
       /\ FirstDep(k) # log[k].rec.task_id
  /\ \E k \in 1..Len(log) :
       /\ RefinedCachedObject(k)
       /\ Has(log[k].rec.prev_result, "query")
       /\ log[k].rec.base_query = Get(log[k].rec.prev_result, "query")
       /\ log[k].rec.query # log[k].rec.base_query
       /\ FirstDep(k) # log[k].rec.task_id

\* ------------------------------------------------------------------------
\* execute_task called on its own, the Result Cache holding any JSON value
\* under the dependency's id
\* ------------------------------------------------------------------------
Predicate == Get(build_query("goal", "2d", 1), "query")
MustPredicate == D("bool" :> D("must" :> L(<<OtherClause>>)))

\* values under the dependency's id: predicates wrapped and bare, objects that
\* only look like a wrapper, error objects, sequences of records and of other
\* things, scalars
CachedValues ==
  {D("query" :> Predicate), Predicate,
   D("query" :> MustPredicate), MustPredicate,
   D(("query" :> Predicate) @@ ("size" :> I(50))),
   D(EmptyFn), D("query" :> D(EmptyFn)),
   D("query" :> S("x")), D("query" :> None),
   D("query" :> D("query" :> Predicate)),
   ClientError,
   L(<<>>), L(<<NamedHit>>), L(<<PlainHit>>), L(<<NamedHit, PlainHit>>),
   L(<<D("agent" :> S("web01"))>>), L(<<D("agent" :> None)>>),
   L(<<D("agent" :> D(EmptyFn))>>), L(<<D("agent" :> D("name" :> None))>>),
   L(<<S("x")>>), L(<<None>>), L(<<L(<<>>)>>),
   S("x"), I(5)}

\* the cache has no entry under "t1", or one of the values above
Caches == {EmptyFn} \cup {("t1" :> v) : v \in CachedValues}

DirectTasks ==
  {[task_id |-> "t2", sub_task |-> "goal", tool_name |-> tn, dependent_on_tasks |-> ds] :
     tn \in SearchTools \cup {"get_agent_data"},
     ds \in {<<>>, <<"t1">>, <<Dangling, "t1">>}}

InitTask ==
  /\ et_task \in DirectTasks
  /\ et_cache \in Caches
  /\ et_result = None
  /\ opensearch_client \in BOOLEAN
  /\ IdleExcept("task")

\* await execute_task(et_task, results_cache)
CallExecuteTask ==
  /\ pc = "idle"
  /\ et_task # None
  /\ et_result = None
  /\ \E env \in Envs :
       et_result' = execute_task(et_task, et_cache, opensearch_client, env)
  /\ UNCHANGED <<et_task, et_cache>>
  /\ UNCHANGED nonTaskVars

NextTask == CallExecuteTask
SpecTask == InitTask /\ [][NextTask]_vars

Called == et_task # None /\ et_result # None
\* the cached value of the first declared dependency (results_cache.get)
FirstDepValue ==
  IF et_task.dependent_on_tasks = <<>> THEN None
  ELSE CacheGet(et_cache, et_task.dependent_on_tasks[1])
NonEmptyObject(p) == IsDict(p) /\ DOMAIN p.v # {}
\* {query: p} with p an object
IsWrapper(v) == IsDict(v) /\ Has(v, "query") /\ IsDict(Get(v, "query"))
CarriesQueryField(q) == IsDict(q) /\ Has(q, "query")
\* the refined queries of a base query synthesized from the task's sub-goal
RefinedSynthesized ==
  {refine_query_for_tool(b, et_task.tool_name) : b \in Synthesized(et_task.sub_task)}
\* the same call, the cache holding p under the first dependency's id
QueryGivenBare(p) ==
  {execute_task(et_task, (et_task.dependent_on_tasks[1] :> p), opensearch_client, env).rec.query :
     env \in Envs}

CarriesAgentName(v) ==
  /\ IsList(v) /\ Len(v.v) > 0
  /\ IsDict(v.v[1]) /\ Has(v.v[1], "agent")
  /\ IsDict(Get(v.v[1], "agent")) /\ Has(Get(v.v[1], "agent"), "name")

C16_AgentNameExtraction ==
  (Called /\ et_task.tool_name = "get_agent_data") =>
    LET v == FirstDepValue
    IN  /\ ~et_result.escaped
        /\ et_result.rec.invoked /\ ~et_result.rec.raised
        /\ IsSuccess(et_result.outcome)
        /\ et_result.outcome.task_id = et_task.task_id
        /\ et_result.cache = (et_task.task_id :> et_result.outcome.result) @@ et_cache
        /\ et_result.rec.agent_name =
             (IF CarriesAgentName(v) THEN Get(Get(v.v[1], "agent"), "name") ELSE None)

\* the lookup was invoked without a name after a dependency whose first element
\* is not an object
C16_Witness ==
  /\ Called
  /\ et_task.tool_name = "get_agent_data"
  /\ FirstDepValue = L(<<S("x")>>)
  /\ et_result.rec.invoked
  /\ et_result.rec.agent_name = None
  /\ IsSuccess(et_result.outcome)

\* the lookup was invoked with the name the dependency's first record carries
C16_NameExtracted ==
  /\ Called
  /\ et_task.tool_name = "get_agent_data"
  /\ FirstDepValue = L(<<NamedHit, PlainHit>>)
  /\ et_result.rec.agent_name = S("web01")
  /\ et_result.rec.backend = "ok"

\* ------------------------------------------------------------------------
\* Two calls of run_execution_plan in flight at once, with deterministic tools
\* ------------------------------------------------------------------------
\* tasks of a plan run concurrently with another
MaxRunTasks == 2

Runs == {1, 2}
Other(r) == CHOOSE o \in Runs : o # r

\* the tools are deterministic: one instant, one answer of the backend
DetEnv == [now |-> 1, resp |-> [raised |-> FALSE, hits |-> <<NamedHit>>], raises |-> FALSE]

RunTasksAt(i, n) ==
  {[task_id |-> Id(i), sub_task |-> "goal", tool_name |-> tn, dependent_on_tasks |-> ds] :
     tn \in {"build_query", SearchToolAt(i), "get_agent_data"},
     ds \in SeqsUpTo({Id(j) : j \in 1..n}, 1)}
RunTaskSeqs ==
  UNION {{s \in [1..n -> UNION {RunTasksAt(i, n) : i \in 1..n}] :
            \A i \in 1..n : s[i] \in RunTasksAt(i, n)} : n \in 0..MaxRunTasks}
\* the plans of both runs use the same task ids
RunPlans == {None} \cup {D("plans" :> ts) : ts \in RunTaskSeqs}

\* one module-level dict used by every call
CacheSlotShared(r) == 1
\* line 197: results_cache is a dict created by the call, held by no other
CacheSlot(r) == r

RunTasks(r) == Get(runs[r].plan, "plans")
\* next((t for t in plan["plans"] if t["task_id"] == dep_id), None) as an index
PosIn(ts, dep_id) ==
  IF \E k \in 1..Len(ts) : ts[k].task_id = dep_id
  THEN CHOOSE k \in 1..Len(ts) :
         ts[k].task_id = dep_id /\ \A m \in 1..(k - 1) : ts[m].task_id # dep_id
  ELSE 0
\* line 193 for the plan p
PlanInvalidFor(p) == ~(Truthy(p) /\ Has(p, "plans"))

InitRuns ==
  /\ runs \in [Runs -> {[plan |-> p, pc |-> "start", ti |-> 1, di |-> 1,
                         task_results |-> <<>>, ret |-> None, overlapped |-> FALSE] :
                          p \in RunPlans}]
  /\ caches = [s \in Runs |-> EmptyFn]
  /\ opensearch_client = TRUE
  /\ IdleExcept("runs")

\* lines 193-194
RunInvalid(r) ==
  /\ runs[r].pc = "start"
  /\ PlanInvalidFor(runs[r].plan)
  /\ runs' = [runs EXCEPT ![r].pc = "done",
                          ![r].ret = [status |-> FALSE, error |-> "Invalid plan format"]]
  /\ UNCHANGED caches
  /\ UNCHANGED nonRunVars

\* lines 196-198
RunStart(r) ==
  /\ runs[r].pc = "start"
  /\ ~PlanInvalidFor(runs[r].plan)
  /\ runs' = [runs EXCEPT ![r].pc = "loop", ![r].task_results = <<>>]
  /\ caches' = [caches EXCEPT ![CacheSlot(r)] = EmptyFn]
  /\ UNCHANGED nonRunVars

\* await execute_task(task, results_cache) and append its outcome; the other
\* run may have dispatched since this one last did
RunDispatch(r, task, ti2, di2) ==
  LET res == execute_task(task, caches[CacheSlot(r)], opensearch_client, DetEnv)
      o == runs[Other(r)]
  IN  /\ caches' = [caches EXCEPT ![CacheSlot(r)] = res.cache]
      /\ runs' = [runs EXCEPT ![r].task_results = Append(@, res.outcome),
                              ![r].ti = ti2, ![r].di = di2,
                              ![r].overlapped = @ \/ (o.pc = "loop" /\ o.task_results # <<>>)]

\* lines 205-208: the dependency is cached or names no task
RunSkipDependency(r) ==
  /\ runs[r].pc = "loop"
  /\ runs[r].ti <= Len(RunTasks(r))
  /\ runs[r].di <= Len(RunTasks(r)[runs[r].ti].dependent_on_tasks)
  /\ LET dep_id == RunTasks(r)[runs[r].ti].dependent_on_tasks[runs[r].di]
     IN  dep_id \in DOMAIN caches[CacheSlot(r)] \/ PosIn(RunTasks(r), dep_id) = 0
  /\ runs' = [runs EXCEPT ![r].di = @ + 1]
  /\ UNCHANGED caches
  /\ UNCHANGED nonRunVars

\* lines 205-210
RunResolveDependency(r) ==
  /\ runs[r].pc = "loop"
  /\ runs[r].ti <= Len(RunTasks(r))
  /\ runs[r].di <= Len(RunTasks(r)[runs[r].ti].dependent_on_tasks)
  /\ LET dep_id == RunTasks(r)[runs[r].ti].dependent_on_tasks[runs[r].di]
     IN  /\ dep_id \notin DOMAIN caches[CacheSlot(r)]
         /\ PosIn(RunTasks(r), dep_id) # 0
         /\ RunDispatch(r, RunTasks(r)[PosIn(RunTasks(r), dep_id)],
                        runs[r].ti, runs[r].di + 1)
  /\ UNCHANGED nonRunVars

\* lines 213-214
RunExecuteCurrent(r) ==
  /\ runs[r].pc = "loop"
  /\ runs[r].ti <= Len(RunTasks(r))
  /\ runs[r].di > Len(RunTasks(r)[runs[r].ti].dependent_on_tasks)
  /\ RunDispatch(r, RunTasks(r)[runs[r].ti], runs[r].ti + 1, 1)
  /\ UNCHANGED nonRunVars

\* lines 216-228
RunReturn(r) ==
  /\ runs[r].pc = "loop"
  /\ runs[r].ti > Len(RunTasks(r))
  /\ runs' = [runs EXCEPT ![r].pc = "done",
                          ![r].ret = [status |-> TRUE,
                                      task_results |-> runs[r].task_results,
                                      aggregated_results |-> Aggregate(runs[r].task_results)]]
  /\ UNCHANGED caches
  /\ UNCHANGED nonRunVars

NextRuns ==
  \/ \E r \in Runs : RunInvalid(r)
  \/ \E r \in Runs : RunStart(r)
  \/ \E r \in Runs : RunSkipDependency(r)
  \/ \E r \in Runs : RunResolveDependency(r)
  \/ \E r \in Runs : RunExecuteCurrent(r)
  \/ \E r \in Runs : RunReturn(r)

SpecRuns == InitRuns /\ [][NextRuns]_vars

\* the trace of the loop of lines 200-214 over the tasks ts, run alone from
\* task i, dependency d, with the cache and the trace so far
RECURSIVE AloneFrom(_, _, _, _, _)
AloneFrom(ts, i, d, cache, trace) ==
  IF i > Len(ts) THEN trace
  ELSE IF d <= Len(ts[i].dependent_on_tasks)
  THEN LET dep_id == ts[i].dependent_on_tasks[d]
       IN  IF dep_id \in DOMAIN cache \/ PosIn(ts, dep_id) = 0
           THEN AloneFrom(ts, i, d + 1, cache, trace)
           ELSE CHOOSE rest \in
                  {AloneFrom(ts, i, d + 1, res.cache, Append(trace, res.outcome)) :
                     res \in {execute_task(ts[PosIn(ts, dep_id)], cache,
                                           opensearch_client, DetEnv)}} : TRUE
  ELSE CHOOSE rest \in
         {AloneFrom(ts, i + 1, 1, res.cache, Append(trace, res.outcome)) :
            res \in {execute_task(ts[i], cache, opensearch_client, DetEnv)}} : TRUE
\* task_results of the plan p run alone
Alone(p) == AloneFrom(Get(p, "plans"), 1, 1, EmptyFn, <<>>)
IsPrefix(s, u) == Len(s) <= Len(u) /\ s = SubSeq(u, 1, Len(s))

\* ------------------------------------------------------------------------
\* C17: two runs interleaved at their tool invocations share no cache or
\* trace: with deterministic tools the task_results and aggregated_results each
\* run returns are those of its plan run alone, in every interleaving, the two
\* plans using the same task ids.
\* ------------------------------------------------------------------------
C17_RunsIndependent ==
  \A r \in Runs :
    IF PlanInvalidFor(runs[r].plan)
    THEN runs[r].pc = "done" => runs[r].ret.status = FALSE
    ELSE \A alone \in {Alone(runs[r].plan)} :
           /\ IsPrefix(runs[r].task_results, alone)
           /\ runs[r].pc = "done" =>
                /\ runs[r].ret.status = TRUE
                /\ runs[r].ret.task_results = alone
                /\ runs[r].ret.aggregated_results = Aggregate(alone)

\* two runs over different plans with the same task ids have returned, each
\* having dispatched while the other was between two of its dispatches
C17_Witness ==
  /\ \A r \in Runs :
       /\ runs[r].pc = "done"
       /\ runs[r].overlapped
       /\ ~PlanInvalidFor(runs[r].plan)
       /\ Len(RunTasks(r)) = 2
       /\ Len(runs[r].ret.task_results) >= 3
  /\ runs[1].plan # runs[2].plan
  /\ runs[1].ret.task_results # runs[2].ret.task_results

\* ------------------------------------------------------------------------
\* audit_logger: two calls of log_step writing to the same AUDIT_FILE
\* ------------------------------------------------------------------------
Writers == {"w1", "w2"}
\* the file: absent, a JSON list of entries, a JSON value that is no list, or
\* text json.load rejects (an empty or half-written file included)
NoFile == [kind |-> "missing", entries |-> <<>>]
Listed(es) == [kind |-> "list", entries |-> es]
NotAList == [kind |-> "object", entries |-> <<>>]
Corrupt == [kind |-> "corrupt", entries |-> <<>>]
FilesBefore == {NoFile, Listed(<<>>), Listed(<<"e0">>), NotAList, Corrupt}
\* the entry each call builds at lines 62-70
EntryOf(w) == IF w = "w1" THEN "e1" ELSE "e2"

InitAudit ==
  /\ audit_file \in FilesBefore
  /\ audit_before = audit_file
  /\ writers \in [Writers -> {[pc |-> "load", data |-> <<>>, serializable |-> s,
                               failed |-> "no"] : s \in BOOLEAN}]
  /\ opensearch_client = FALSE
  /\ IdleExcept("audit")

\* the except clause left out: the exception leaves append_audit_entry
Reraised == "raised"
\* lines 54-55: the exception is logged and log_step goes on to return
Swallowed == "returned"

OnException(w, why) == [writers EXCEPT ![w].pc = Swallowed, ![w].failed = why]

\* lines 51-52: _load_audit_file() and data.append(entry)
Load(w) ==
  /\ writers[w].pc = "load"
  /\ \/ /\ audit_file.kind = "missing"
        /\ writers' = [writers EXCEPT ![w].pc = "open", ![w].data = <<EntryOf(w)>>]
     \/ /\ audit_file.kind = "list"
        /\ writers' = [writers EXCEPT ![w].pc = "open",
                                      ![w].data = Append(audit_file.entries, EntryOf(w))]
     \/ /\ audit_file.kind = "corrupt"
        /\ writers' = [writers EXCEPT ![w].pc = "open", ![w].data = <<EntryOf(w)>>]
     \/ /\ audit_file.kind = "object"
        /\ writers' = OnException(w, "append")
     \/ /\ audit_file.kind # "missing"
        /\ writers' = OnException(w, "read")
  /\ UNCHANGED <<audit_file, audit_before>>
  /\ UNCHANGED nonAuditVars

\* line 36: open(AUDIT_FILE, "w") empties the file, or fails and leaves it
OpenForWrite(w) ==
  /\ writers[w].pc = "open"
  /\ \/ /\ audit_file' = Corrupt
        /\ writers' = [writers EXCEPT ![w].pc = "dump"]
     \/ /\ writers' = OnException(w, "write")
        /\ UNCHANGED audit_file
  /\ UNCHANGED audit_before
  /\ UNCHANGED nonAuditVars

\* line 37 and the end of the with block: the whole list reaches the file, or
\* json.dump raises TypeError part-way and a fragment is left
Dump(w) ==
  /\ writers[w].pc = "dump"
  /\ IF writers[w].serializable
     THEN /\ audit_file' = Listed(writers[w].data)
          /\ writers' = [writers EXCEPT ![w].pc = "returned"]
     ELSE /\ audit_file' = Corrupt
          /\ writers' = OnException(w, "serialize")
  /\ UNCHANGED audit_before
  /\ UNCHANGED nonAuditVars

NextAudit ==
  \/ \E w \in Writers : Load(w)
  \/ \E w \in Writers : OpenForWrite(w)
  \/ \E w \in Writers : Dump(w)

SpecAudit == InitAudit /\ [][NextAudit]_vars

InFile(e) == \E n \in 1..Len(audit_file.entries) : audit_file.entries[n] = e
BothReturned == \A w \in Writers : writers[w].pc = "returned"
NoFailure == \A w \in Writers : writers[w].failed = "no"

\* ------------------------------------------------------------------------
\* C18: when two calls of log_step write to the same audit log concurrently,
\* none of them meeting an I/O or serialization failure, then after both have
\* returned the file is a list holding every entry it held before and both
\* new entries.
\* ------------------------------------------------------------------------
C18_ConcurrentAppendsKept ==
  (BothReturned /\ NoFailure /\ audit_before.kind \in {"missing", "list"}) =>
    /\ audit_file.kind = "list"
    /\ \A n \in 1..Len(audit_before.entries) : InFile(audit_before.entries[n])
    /\ \A w \in Writers : InFile(EntryOf(w))

\* ------------------------------------------------------------------------
\* C19: log_step never raises to its caller: whatever loading and saving the
\* audit file meet (no file, corrupted content, a value that is no list, a read
\* or write error, data json.dump rejects), the call ends by returning, as it
\* does when the entry was persisted.
\* ------------------------------------------------------------------------
C19_LogStepNeverRaises ==
  \A w \in Writers :
    /\ writers[w].pc \in {"load", "open", "dump", "returned"}
    /\ writers[w].failed # "no" => writers[w].pc = "returned"

\* both calls have returned, one after json.dump rejected its data and left a
\* fragment in the file, the other after an I/O error or a file that is no list
C19_Witness ==
  /\ BothReturned
  /\ audit_file.kind = "corrupt"
  /\ \E w \in Writers : writers[w].failed = "serialize"
  /\ \E w \in Writers : writers[w].failed \in {"read", "write", "append"}

\* ------------------------------------------------------------------------
\* C26: the audit log is append-only under the calls of a single writer: when
\* one call of log_step has returned and no other call has touched the file,
\* every entry the file held before the call is still in the file, at the
\* same place, whether or not the call persisted its own entry.
\* ------------------------------------------------------------------------
C26_AppendOnly ==
  \A w \in Writers :
    (/\ writers[w].pc = "returned"
     /\ \A o \in Writers \ {w} : writers[o].pc = "load"
     /\ audit_before.kind = "list") =>
      \A n \in 1..Len(audit_before.entries) :
        /\ audit_file.kind = "list"
        /\ n <= Len(audit_file.entries)
        /\ audit_file.entries[n] = audit_before.entries[n]

\* ========================================================================
\* One investigation request: the HTTP route run_investigation
\* (mcp_server.py:106-134), the tool run_cyber_investigation
\* (mcp_server.py:41-80) and the orchestrator's run_full_analysis
\* (orchestrator.py:45-170). The planner and the report generator are
\* outside calls: each may raise, answer with a failure, or answer with a
\* structure the orchestrator does not expect. The executor is the one
\* modelled above, run with deterministic tools.
\* ========================================================================
\* who calls: the HTTP route, or the tool run_cyber_investigation directly
Routes == {"http", "mcp"}
\* the user_input of the request: absent, empty, or a goal
UserInputs == {None, S(""), S("goal")}

\* a task list as the planner is asked to write it
GoodTasks ==
  << [task_id |-> "t1", sub_task |-> "goal", tool_name |-> "build_query",
      dependent_on_tasks |-> <<>>],
     [task_id |-> "t2", sub_task |-> "goal", tool_name |-> "search_alerts",
      dependent_on_tasks |-> <<"t1">>] >>
\* the 'plan' of a planner answer: null, {}, a task list holding a string
\* instead of a task, no task, the task list asked for
ServerPlans ==
  {None, D(EmptyFn), D("plans" :> <<S("x")>>), D("plans" :> <<>>), D("plans" :> GoodTasks)}
\* what generate_plan returns: no object at all, a failure, success without a
\* plan, success with a plan
PlanDatas ==
  {None,
   D(("status" :> B(FALSE)) @@ ("error" :> S("LLM failed to return valid JSON"))),
   D(("status" :> B(TRUE)) @@ ("goal" :> S("goal")))}
  \cup {D(("status" :> B(TRUE)) @@ ("goal" :> S("goal")) @@ ("plan" :> p)) : p \in ServerPlans}
PlannerOutcomes == {[raised |-> TRUE]} \cup {[raised |-> FALSE, value |-> v] : v \in PlanDatas}
\* what generate_report_from_results returns: no object at all, a report, success
\* without a report, a failure with or without a message
ReportResults ==
  {None,
   D(("status" :> B(TRUE)) @@ ("report" :> S("report"))),
   D("status" :> B(TRUE)),
   D(("status" :> B(FALSE)) @@ ("error" :> S("LLM error"))),
   D("status" :> B(FALSE))}
ReportOutcomes == {[raised |-> TRUE]} \cup {[raised |-> FALSE, value |-> v] : v \in ReportResults}

JSONResponse(content, status_code) == [status_code |-> status_code, body |-> content]
\* dict.get(key, default)
GetOr(x, k, default) == IF Has(x, k) THEN Get(x, k) ELSE default
\* orchestrator.py:99 and 105: len(plan_data.get("plan", {}).get("plans", []))
\* raises when 'plan' is no object
PlanTasksCounted(pd) == IsDict(GetOr(pd, "plan", D(EmptyFn)))
\* executor_agent.py:188-228 as a whole, with deterministic tools: the failure
\* answer for an invalid plan, an exception on a task that is no object, the
\* outcomes of the run otherwise
ExecutionOf(p) ==
  IF PlanInvalidFor(p)
  THEN [raised |-> FALSE,
        value |-> D(("status" :> B(FALSE)) @@ ("error" :> S("Invalid plan format")))]
  ELSE IF \E i \in DOMAIN Get(p, "plans") : "task_id" \notin DOMAIN Get(p, "plans")[i]
  THEN [raised |-> TRUE]
  ELSE CHOOSE out \in
         {[raised |-> FALSE,
           value |-> D(("status" :> B(TRUE)) @@ ("task_results" :> task_results_)
                       @@ ("aggregated_results" :> Aggregate(task_results_)))] :
            task_results_ \in {Alone(p)}} : TRUE

\* log_step(step, status, ...): never raises, leaves an entry in the trail
Logged(steps) == srv.audit \o steps
\* the request once the stage was invoked and ended with the outcome out
Invoked(stage, out) ==
  [srv EXCEPT !.calls = Append(@, [stage |-> stage, outcome |-> out])]
\* where control goes when run_cyber_investigation ends
AfterTool == IF srv.route = "http" THEN "http_return" ELSE "done"

InitServer ==
  /\ opensearch_client = TRUE
  /\ IdleExcept("server")
  /\ \E route \in Routes, user_input \in UserInputs :
       srv = [route |-> route, user_input |-> user_input,
              pc |-> IF route = "http" THEN "http_entry" ELSE "tool_entry",
              plan_data |-> None, exec_data |-> None, response |-> None,
              exc |-> "none", result |-> None, http |-> None, audit |-> <<>>,
              calls |-> <<>>]

\* mcp_server.py:112-124: the route rejects a request without input itself
HttpEntry ==
  /\ srv.pc = "http_entry"
  /\ srv' = IF ~Truthy(srv.user_input)
            THEN [srv EXCEPT !.pc = "done",
                    !.http = JSONResponse(
                      D(("status" :> B(FALSE))
                        @@ ("error" :> S("Missing 'user_input' or 'input' in request payload"))
                        @@ ("received" :> D(EmptyFn))), 400)]
            ELSE [srv EXCEPT !.pc = "tool_entry"]
  /\ UNCHANGED nonServerVars

\* mcp_server.py:53-63
ToolEntry ==
  /\ srv.pc = "tool_entry"
  /\ srv' = [srv EXCEPT !.pc = "input", !.audit = Logged(<<<<"mcp_invocation", "started">>>>)]
  /\ UNCHANGED nonServerVars

\* orchestrator.py:53-80: the body of the dummy request and its user_input
ReadInput ==
  /\ srv.pc = "input"
  /\ srv' = IF ~Truthy(srv.user_input)
            THEN [srv EXCEPT !.pc = "decode",
                    !.audit = Logged(<<<<"orchestration", "failed">>>>),
                    !.response = JSONResponse(
                      D(("status" :> B(FALSE))
                        @@ ("error" :> S("Missing 'user_input' or 'input' in request payload"))
                        @@ ("received" :> D("user_input" :> srv.user_input))), 400)]
            ELSE [srv EXCEPT !.pc = "plan",
                    !.audit = Logged(<<<<"plan_generation", "in_progress">>>>)]
  /\ UNCHANGED nonServerVars

\* orchestrator.py:82-100
PlanGeneration ==
  /\ srv.pc = "plan"
  /\ \E out \in PlannerOutcomes :
       srv' =
         IF out.raised
         THEN [Invoked("generate_plan", out) EXCEPT !.pc = "decode",
                 !.audit = Logged(<<<<"plan_generation", "failed">>>>),
                 !.response = JSONResponse(
                   D(("status" :> B(FALSE)) @@ ("error" :> S("Planner error"))), 500)]
         ELSE IF ~IsDict(out.value)
         THEN [Invoked("generate_plan", out) EXCEPT !.pc = "except", !.plan_data = out.value, !.exc = "AttributeError"]
         ELSE IF ~Truthy(GetOr(out.value, "status", None))
         THEN [Invoked("generate_plan", out) EXCEPT !.pc = "decode", !.plan_data = out.value,
                 !.audit = Logged(<<<<"plan_generation", "failed">>>>),
                 !.response = JSONResponse(
                   D(("status" :> B(FALSE)) @@ ("error" :> S("Planner failed"))
                     @@ ("details" :> out.value)), 500)]
         ELSE IF ~PlanTasksCounted(out.value)
         THEN [Invoked("generate_plan", out) EXCEPT !.pc = "except", !.plan_data = out.value, !.exc = "AttributeError"]
         ELSE [Invoked("generate_plan", out) EXCEPT !.pc = "execute", !.plan_data = out.value,
                 !.audit = Logged(<<<<"plan_generation", "success">>>>)]
  /\ UNCHANGED nonServerVars

\* the answer of the executor is not looked at: lines 118-123 left out
PlanExecutionUnchecked ==
  /\ srv.pc = "execute"
  /\ LET started == Logged(<<<<"plan_execution", "in_progress">>>>)
         \* line 110: without a 'plan' the KeyError comes before the call
         has_plan == Has(srv.plan_data, "plan")
         out == IF has_plan THEN ExecutionOf(Get(srv.plan_data, "plan"))
                ELSE [raised |-> TRUE]
         called == IF has_plan THEN Invoked("run_execution_plan", out) ELSE srv
     IN  srv' =
           IF out.raised
           THEN [called EXCEPT !.pc = "decode",
                   !.audit = started \o <<<<"plan_execution", "failed">>>>,
                   !.response = JSONResponse(
                     D(("status" :> B(FALSE)) @@ ("error" :> S("Executor error"))), 500)]
           ELSE [called EXCEPT !.pc = "report", !.exec_data = out.value,
                   !.audit = started \o <<<<"plan_execution", "success">>>>]
  /\ UNCHANGED nonServerVars

\* orchestrator.py:105-126
PlanExecution ==
  /\ srv.pc = "execute"
  /\ LET started == Logged(<<<<"plan_execution", "in_progress">>>>)
         \* line 110: without a 'plan' the KeyError comes before the call
         has_plan == Has(srv.plan_data, "plan")
         out == IF has_plan THEN ExecutionOf(Get(srv.plan_data, "plan"))
                ELSE [raised |-> TRUE]
         called == IF has_plan THEN Invoked("run_execution_plan", out) ELSE srv
     IN  srv' =
           IF out.raised
           THEN [called EXCEPT !.pc = "decode",
                   !.audit = started \o <<<<"plan_execution", "failed">>>>,
                   !.response = JSONResponse(
                     D(("status" :> B(FALSE)) @@ ("error" :> S("Executor error"))), 500)]
           ELSE IF ~Truthy(GetOr(out.value, "status", None))
           THEN [called EXCEPT !.pc = "decode", !.exec_data = out.value,
                   !.audit = started \o <<<<"plan_execution", "failed">>>>,
                   !.response = JSONResponse(
                     D(("status" :> B(FALSE)) @@ ("error" :> S("Executor failed"))
                       @@ ("details" :> out.value)), 500)]
           ELSE [called EXCEPT !.pc = "report", !.exec_data = out.value,
                   !.audit = started \o <<<<"plan_execution", "success">>>>]
  /\ UNCHANGED nonServerVars

\* orchestrator.py:131-138
combined_result ==
  ("status" :> B(TRUE))
  @@ ("goal" :> GetOr(srv.plan_data, "goal", None))
  @@ ("plan" :> GetOr(srv.plan_data, "plan", None))
  @@ ("task_results" :> GetOr(srv.exec_data, "task_results", None))
  @@ ("aggregated_results" :> GetOr(srv.exec_data, "aggregated_results", None))

\* the failure of the report is the failure of the request
ReportFailureFailsRequest(report_result) ==
  JSONResponse(D(("status" :> B(FALSE))
                 @@ ("error" :> GetOr(report_result, "error", S("Unknown error")))), 500)
\* orchestrator.py:160-170: the failure is written into combined_result and
\* the request goes on to its normal end
ReportFailureResponse(report_result) ==
  JSONResponse(D(("report_generation_error"
                    :> GetOr(report_result, "error", S("Unknown error")))
                 @@ combined_result), 200)

\* orchestrator.py:143-170: the report, then the final response
ReportGeneration ==
  /\ srv.pc = "report"
  /\ \E out \in ReportOutcomes :
       LET started == Logged(<<<<"report_generation", "in_progress">>>>)
           \* lines 151-154: an exception becomes a failure answer
           report_result == IF out.raised
                            THEN D(("status" :> B(FALSE)) @@ ("error" :> S("raised")))
                            ELSE out.value
           caught == IF out.raised THEN <<<<"report_generation", "failed">>>> ELSE <<>>
       IN  srv' =
             IF ~IsDict(report_result)
             THEN [Invoked("generate_report_from_results", out) EXCEPT !.pc = "except", !.exc = "AttributeError",
                     !.audit = started]
             ELSE IF Truthy(GetOr(report_result, "status", None))
             THEN IF ~Has(report_result, "report")
                  THEN [Invoked("generate_report_from_results", out) EXCEPT !.pc = "except", !.exc = "KeyError", !.audit = started]
                  ELSE [Invoked("generate_report_from_results", out) EXCEPT !.pc = "decode",
                          !.audit = started \o <<<<"report_generation", "success">>,
                                                 <<"orchestration_complete", "success">>>>,
                          !.response = JSONResponse(
                            D(("formatted_report" :> Get(report_result, "report"))
                              @@ combined_result), 200)]
             ELSE [Invoked("generate_report_from_results", out) EXCEPT !.pc = "decode",
                     !.audit = started \o caught
                               \o <<<<"report_generation", "failed">>,
                                    <<"orchestration_complete", "success">>>>,
                     !.response = ReportFailureResponse(report_result)]
  /\ UNCHANGED nonServerVars

\* the status of the orchestrator's answer is taken over at the top level
ToolDecodeStatusTakenOver ==
  /\ srv.pc = "decode"
  /\ srv' = [srv EXCEPT !.pc = AfterTool,
               !.audit = Logged(<<<<"mcp_invocation", "success">>>>),
               !.result = D(("status" :> Get(srv.response.body, "status"))
                            @@ ("result" :> srv.response.body))]
  /\ UNCHANGED nonServerVars

\* mcp_server.py:66-74: the body of the response is what was put in it; the
\* fallback of lines 68-69 is for a response without a JSON body
ToolDecode ==
  /\ srv.pc = "decode"
  /\ srv' = [srv EXCEPT !.pc = AfterTool,
               !.audit = Logged(<<<<"mcp_invocation", "success">>>>),
               !.result = D(("status" :> B(TRUE)) @@ ("result" :> srv.response.body))]
  /\ UNCHANGED nonServerVars

\* no except clause: the exception leaves run_cyber_investigation
ToolExceptMissing ==
  /\ srv.pc = "except"
  /\ srv' = [srv EXCEPT !.pc = IF srv.route = "http" THEN "http_return" ELSE "raised"]
  /\ UNCHANGED nonServerVars

\* mcp_server.py:76-80: whatever left run_full_analysis is caught
ToolExcept ==
  /\ srv.pc = "except"
  /\ srv' = [srv EXCEPT !.pc = AfterTool, !.exc = "none",
               !.audit = Logged(<<<<"mcp_invocation", "failed">>>>),
               !.result = D(("status" :> B(FALSE)) @@ ("error" :> S(srv.exc)))]
  /\ UNCHANGED nonServerVars

\* mcp_server.py:127-134: the result of the tool as a response; an exception
\* reaching the route becomes a 500 response
HttpReturn ==
  /\ srv.pc = "http_return"
  /\ srv' = IF srv.exc # "none"
            THEN [srv EXCEPT !.pc = "done", !.exc = "none",
                    !.audit = Logged(<<<<"http_invocation", "failed">>>>),
                    !.http = JSONResponse(
                      D(("status" :> B(FALSE)) @@ ("error" :> S(srv.exc))), 500)]
            ELSE [srv EXCEPT !.pc = "done", !.http = JSONResponse(srv.result, 200)]
  /\ UNCHANGED nonServerVars

NextServer ==
  \/ HttpEntry
  \/ ToolEntry
  \/ ReadInput
  \/ PlanGeneration
  \/ PlanExecution
  \/ ReportGeneration
  \/ ToolDecode
  \/ ToolExcept
  \/ HttpReturn

SpecServer == InitServer /\ [][NextServer]_vars

\* ---- vocabulary of the properties ----
\* what the caller of the entry point holds once the call has ended
ToolReturned == IF srv.route = "http" THEN srv.http.body ELSE srv.result
CarriesStatus(v) == IsDict(v) /\ Has(v, "status") /\ Get(v, "status") \in {B(TRUE), B(FALSE)}
Logs(step, status) == \E n \in DOMAIN srv.audit : srv.audit[n] = <<step, status>>

Stages == <<"generate_plan", "run_execution_plan", "generate_report_from_results">>
\* the n-th invocation answered with an object whose status is true
StageSucceeded(n) ==
  /\ ~srv.calls[n].outcome.raised
  /\ IsDict(srv.calls[n].outcome.value)
  /\ Truthy(GetOr(srv.calls[n].outcome.value, "status", None))
\* the n-th invocation raised, or answered with an object whose status is not true
StageFailed(n) ==
  \/ srv.calls[n].outcome.raised
  \/ /\ IsDict(srv.calls[n].outcome.value)
     /\ ~Truthy(GetOr(srv.calls[n].outcome.value, "status", None))
\* run_full_analysis has returned a response whose body has status false
AnsweredStatusFalse ==
  /\ srv.response # None
  /\ CarriesStatus(srv.response.body)
  /\ Get(srv.response.body, "status") = B(FALSE)
  /\ srv.response.status_code \in {400, 500}

\* ------------------------------------------------------------------------
\* C21: in run_full_analysis the planner, the executor and the report
\* generator are invoked in that order, each at most once; the executor only
\* after the planner answered with status true, the report generator only
\* after the executor answered with status true; without input no stage is
\* invoked, and after a planner or executor failure (an exception or a status
\* that is not true) no later stage is invoked and the response of
\* run_full_analysis has status false.
\* ------------------------------------------------------------------------
C21_StagesInOrder ==
  /\ Len(srv.calls) <= Len(Stages)
  /\ \A n \in DOMAIN srv.calls :
       /\ srv.calls[n].stage = Stages[n]
       /\ n > 1 => StageSucceeded(n - 1)
  /\ ~Truthy(srv.user_input) =>
       /\ srv.calls = <<>>
       /\ srv.pc \in {"decode", "http_return"} \/ (srv.pc = "done" /\ srv.route = "mcp")
            => AnsweredStatusFalse
  /\ \A n \in DOMAIN srv.calls \cap {1, 2} :
       StageFailed(n) => Len(srv.calls) = n /\ AnsweredStatusFalse

\* the planner answered with a plan, the executor was invoked and answered
\* with status false, and the request ended without a report being asked for
C21_Witness ==
  /\ srv.pc = "done"
  /\ Len(srv.calls) = 2
  /\ StageSucceeded(1)
  /\ ~srv.calls[2].outcome.raised
  /\ StageFailed(2)
  /\ AnsweredStatusFalse

\* ---- vocabulary of the properties on the report ----
\* the report generator was invoked and raised or answered with a status that
\* is not true
ReportFailed == Len(srv.calls) = 3 /\ StageFailed(3)
\* it answered with status true and a report
ReportSucceeded ==
  Len(srv.calls) = 3 /\ StageSucceeded(3) /\ Has(srv.calls[3].outcome.value, "report")

\* ------------------------------------------------------------------------
\* C27: once the report generator has been invoked and has raised, failed or
\* delivered a report, run_full_analysis answers 200 with status true, the
\* plan of the planner and the task_results and aggregated_results of the
\* executor; the body carries formatted_report exactly when the report
\* succeeded and report_generation_error exactly when it failed, so exactly
\* one of the two.
\* ------------------------------------------------------------------------
C27_ReportFailureKeepsResults ==
  (ReportFailed \/ ReportSucceeded) =>
    /\ srv.response # None
    /\ srv.response.status_code = 200
    /\ \A body \in {srv.response.body} :
         /\ IsDict(body)
         /\ Has(body, "status") /\ Get(body, "status") = B(TRUE)
         /\ Has(body, "plan") /\ Get(body, "plan") = Get(srv.plan_data, "plan")
         /\ Has(body, "task_results")
         /\ Get(body, "task_results") = Get(srv.exec_data, "task_results")
         /\ Has(body, "aggregated_results")
         /\ Get(body, "aggregated_results") = Get(srv.exec_data, "aggregated_results")
         /\ Has(body, "formatted_report") <=> ReportSucceeded
         /\ Has(body, "report_generation_error") <=> ReportFailed

\* the plan was executed, the report generator raised, and the request ended
\* with the results and the error in a status-true body
C27_Witness ==
  /\ srv.pc = "done"
  /\ ReportFailed
  /\ srv.calls[3].outcome.raised
  /\ Len(Get(srv.exec_data, "task_results")) = 2
  /\ Has(srv.response.body, "report_generation_error")
  /\ Get(srv.response.body, "status") = B(TRUE)

\* ------------------------------------------------------------------------
\* C28: the object run_cyber_investigation returns has status true at its top
\* level exactly when run_full_analysis returned a response, whatever the
\* status of that response: after a planner or executor failure answered by
\* the orchestrator with status false, the top level still says true and the
\* status false is that of the nested result.
\* ------------------------------------------------------------------------
C28_TopLevelStatus ==
  srv.result # None =>
    /\ Get(srv.result, "status") = B(TRUE) <=> srv.response # None
    /\ srv.response # None =>
         /\ Has(srv.result, "result")
         /\ Get(srv.result, "result") = srv.response.body
    /\ srv.response = None => ~Has(srv.result, "result") /\ Has(srv.result, "error")

\* the planner failed, the orchestrator answered 500 with status false, and
\* the tool returned status true around it
C28_Witness ==
  /\ srv.pc = "done"
  /\ Len(srv.calls) = 1
  /\ StageFailed(1)
  /\ AnsweredStatusFalse
  /\ Get(srv.result, "status") = B(TRUE)
  /\ Get(Get(srv.result, "result"), "status") = B(FALSE)

====
